---- MODULE Spec2Model ----
(***************************************************************************)
(* Model of the exclusion engine of obsidian-capture                       *)
(* (src/obsidian_capture/exclude.py), of the orchestrator that calls it    *)
(* (src/obsidian_capture/capture.py, "Step 1.5" and the steps after it)    *)
(* and of the command line entry point (src/obsidian_capture/cli.py).      *)
(*                                                                         *)
(* A selector is a Python value: a str (a tuple of one-character strings   *)
(* here, so that lower(), strip() and the regular expressions of           *)
(* is_protected_selector are computed as the code computes them) or a      *)
(* non-string value.  A document is a token stream (the fetched text); the *)
(* parser turns it into a tree of elements and str(soup) turns the tree    *)
(* back into a token stream.                                               *)
(***************************************************************************)
EXTENDS Integers, Sequences, FiniteSets, TLC

VARIABLES
  pc,                     \* position in capture_html_to_obsidian / apply_exclusions
  content,                \* article_source.content, the fetched document
  selectors,              \* request.config.exclusion_selectors
  html_content,           \* capture.py: the document that extraction will read
  soup,                   \* the parse tree that apply_exclusions mutates in place
  original_element_count, \* apply_exclusions: census before any removal
  validation,             \* apply_exclusions: the ValidationResult
  idx,                    \* apply_exclusions: position in validation.valid
  selector_results,       \* apply_exclusions: the outcome list being built
  total_removed,          \* apply_exclusions: running total
  exclusion_result,       \* capture.py: Optional[ExclusionResult]
  exclusion_timing_ms,    \* capture.py: Optional[int]
  log,                    \* records handed to the logger, in order
  exc,                    \* the exception in flight or last caught
  extraction_input,       \* the document handed to extract_content_with_selectors
  summary_in,             \* an ExclusionSummary under construction (pure-function runs)
  result_out,             \* the value a pure function returned
  dry_run,                \* request.dry_run / args.dry
  metadata_input,         \* the document handed to extract_metadata_from_html
  front_matter_input,     \* the document handed to generate_front_matter
  capture_result,         \* what capture_html_to_obsidian returned
  capture_error,          \* the exception that left capture_html_to_obsidian
  args,                   \* cli.py: the parsed argument namespace
  output,                 \* cli.py: the reports written, in order
  exit_code               \* cli.py: what main() returned

\* the variables of capture_html_to_obsidian after the extraction call
downstream == <<dry_run, metadata_input, front_matter_input, capture_result, capture_error>>

\* the variables of main()
cli == <<args, output, exit_code>>

vars == <<pc, content, selectors, html_content, soup, original_element_count,
          validation, idx, selector_results, total_removed, exclusion_result,
          exclusion_timing_ms, log, exc, extraction_input, summary_in, result_out,
          downstream, cli>>

-----------------------------------------------------------------------------
(* Bounds of the model. *)

MaxLen == 2         \* longest selector list drawn freely from SelectorPool
MaxOver == 2        \* how far past the cap the long selector lists go
MaxCount == 100     \* largest count given to an ExclusionSummary built directly
MaxOutcomes == 3    \* longest outcome list given to aggregate_exclusion_summary
MaxRemoved == 2     \* largest elements_removed of a hand-built SelectorResult
MaxDepth == 2       \* deepest nesting of wrapper elements inside a content element
MaxLandmarks == 2   \* most content elements side by side in a generated document

(* Program constants. *)

MaxSelectors == 100           \* validate_selectors(max_selectors=100)
WarnNum == 2                  \* the threshold 0.4 as the fraction 2/5
WarnDen == 5

None == [none |-> TRUE]       \* Python's None

-----------------------------------------------------------------------------
(* Python str operations used by is_protected_selector. *)

UpperCase == <<"A","B","C","D","E","F","G","H","I","J","K","L","M",
               "N","O","P","Q","R","S","T","U","V","W","X","Y","Z">>
LowerCase == <<"a","b","c","d","e","f","g","h","i","j","k","l","m",
               "n","o","p","q","r","s","t","u","v","w","x","y","z">>
Digits == {"0","1","2","3","4","5","6","7","8","9"}
Whitespace == {" ", "\t", "\n", "\r", "\f"}

\* the characters the regex class \w matches
WordChars == {UpperCase[i] : i \in 1..26} \cup {LowerCase[i] : i \in 1..26}
             \cup Digits \cup {"_"}

LowerChar(c) ==
  IF \E i \in 1..26 : UpperCase[i] = c
  THEN LowerCase[CHOOSE i \in 1..26 : UpperCase[i] = c]
  ELSE c

\* str.lower()
StrLower(s) == [i \in 1..Len(s) |-> LowerChar(s[i])]

\* str.strip(): drop leading and trailing whitespace
StrStrip(s) ==
  LET keep == {i \in 1..Len(s) : s[i] \notin Whitespace}
  IN  IF keep = {} THEN <<>>
      ELSE LET lo == CHOOSE i \in keep : \A j \in keep : i <= j
               hi == CHOOSE i \in keep : \A j \in keep : j <= i
           IN  SubSeq(s, lo, hi)

\* re.match("^" + word + "\b", s): s starts with word, and a word boundary follows
MatchWordPrefix(word, s) ==
  /\ Len(s) >= Len(word)
  /\ SubSeq(s, 1, Len(word)) = word
  /\ (Len(s) = Len(word) \/ s[Len(word) + 1] \notin WordChars)

-----------------------------------------------------------------------------
(* Selector values. *)

Str(chars) == [isstr |-> TRUE, chars |-> chars]
NotAStr == [isstr |-> FALSE, chars |-> <<>>]     \* a None in the configured list

\* "not selector": None and the empty str are falsy
Falsy(sel) == sel = NotAStr \/ (sel.isstr /\ sel.chars = <<>>)

ProtectedPatterns == << <<"h","t","m","l">>, <<"b","o","d","y">> >>

is_protected_selector(sel) ==
  IF Falsy(sel) \/ ~sel.isstr THEN FALSE
  ELSE LET selector_lower == StrStrip(StrLower(sel.chars))
       IN  \E p \in 1..Len(ProtectedPatterns) :
              MatchWordPrefix(ProtectedPatterns[p], selector_lower)

-----------------------------------------------------------------------------
(* Documents.  The fetched text is a stream of start and end tags; a start *)
(* tag carries the element's class, role and own text ("" none, "ws" only  *)
(* whitespace, "text" visible text).                                       *)

Open(tag, cls, role, text) ==
  [t |-> "open", tag |-> tag, cls |-> cls, role |-> role, text |-> text]
Close(tag) ==
  [t |-> "close", tag |-> tag, cls |-> "", role |-> "", text |-> ""]

\* a page; the end tags of body and html are left to the parser
DocPage ==
  << Open("html", "no-js", "", ""), Open("body", "", "", "ws"),
     Open("div", "ad", "", ""), Open("footer", "", "", "text"), Close("footer"),
     Close("div"),
     Open("main", "", "", "text"), Close("main") >>

\* a fragment without html or body
DocFragment ==
  << Open("article", "", "", "ws"), Open("div", "ad", "", "text"), Close("div"),
     Close("article"),
     Open("footer", "", "", ""), Open("a", "", "", "text"), Close("a"),
     Close("footer") >>

\* a document whose only primary content element holds whitespace
DocHollow ==
  << Open("main", "", "", "ws"), Close("main"),
     Open("div", "ad", "", ""), Open("footer", "", "", "text"), Close("footer"),
     Close("div") >>

\* a document without any element
DocEmpty == << >>

DocPool == {DocPage, DocFragment, DocEmpty}

\* the innermost open element with this tag name, 0 when there is none
RECURSIVE OpenElementNamed(_, _, _)
OpenElementNamed(nodes, stack, tag) ==
  IF stack = << >> THEN 0
  ELSE IF nodes[stack[Len(stack)]].tag = tag THEN Len(stack)
  ELSE OpenElementNamed(nodes, SubSeq(stack, 1, Len(stack) - 1), tag)

\* the tree builder of BeautifulSoup(markup, "html.parser"): a start tag opens
\* a child of the innermost open element; an end tag closes the innermost open
\* element of that name and everything opened inside it, and is dropped when no
\* such element is open; elements still open at the end are closed
RECURSIVE ParseTokens(_, _, _, _)
ParseTokens(toks, i, nodes, stack) ==
  IF i > Len(toks) THEN nodes
  ELSE IF toks[i].t = "open"
  THEN ParseTokens(toks, i + 1,
         Append(nodes, [tag |-> toks[i].tag, cls |-> toks[i].cls,
                        role |-> toks[i].role, text |-> toks[i].text,
                        parent |-> IF stack = << >> THEN 0 ELSE stack[Len(stack)]]),
         Append(stack, Len(nodes) + 1))
  ELSE LET k == OpenElementNamed(nodes, stack, toks[i].tag)
       IN  ParseTokens(toks, i + 1, nodes,
             IF k = 0 THEN stack ELSE SubSeq(stack, 1, k - 1))

\* soup = BeautifulSoup(html_content, "html.parser"); elements are numbered in
\* document order, parent 0 is the BeautifulSoup object itself
BeautifulSoup(markup) ==
  LET nodes == ParseTokens(markup, 1, << >>, << >>)
  IN  [nodes |-> nodes, alive |-> 1..Len(nodes)]

\* str(soup): every element of the tree with its end tag
RECURSIVE Decode(_, _, _)
Decode(sp, p, k) ==
  IF k > Len(sp.nodes) THEN << >>
  ELSE IF k \in sp.alive /\ sp.nodes[k].parent = p
  THEN << Open(sp.nodes[k].tag, sp.nodes[k].cls, sp.nodes[k].role, sp.nodes[k].text) >>
       \o Decode(sp, k, k + 1) \o << Close(sp.nodes[k].tag) >> \o Decode(sp, p, k + 1)
  ELSE Decode(sp, p, k + 1)

SoupStr(sp) == Decode(sp, 0, 1)

-----------------------------------------------------------------------------
(* Tree queries and removal. *)

\* the chain of ancestors of element n that are elements
RECURSIVE Ancestors(_, _)
Ancestors(sp, n) ==
  LET p == sp.nodes[n].parent
  IN  IF p = 0 THEN {} ELSE {p} \cup Ancestors(sp, p)

\* an element is in the tree when it and all its ancestors are
InTree(sp, n) == n \in sp.alive /\ Ancestors(sp, n) \subseteq sp.alive

\* the elements below n
Descendants(sp, n) == {m \in 1..Len(sp.nodes) : n \in Ancestors(sp, m)}

\* soup.find_all(): every element of the tree
find_all(sp) == {n \in 1..Len(sp.nodes) : InTree(sp, n)}

\* variant of decompose that leaves the tree as it is
decompose_nothing(sp, n) == sp

\* element.decompose(): the element and everything below it leave the tree
decompose(sp, n) == [sp EXCEPT !.alive = @ \ ({n} \cup Descendants(sp, n))]

\* a set of elements in document order
RECURSIVE InOrder(_)
InOrder(S) ==
  IF S = {} THEN << >>
  ELSE LET m == CHOOSE x \in S : \A y \in S : x <= y
       IN  << m >> \o InOrder(S \ {m})

-----------------------------------------------------------------------------
(* The CSS engine behind soup.select().  It is a dependency of the         *)
(* repository; its behaviour is given for the selector texts of the pool.  *)

SelFooter == Str(<<"f","o","o","t","e","r">>)
SelDiv == Str(<<"d","i","v">>)
SelNav == Str(<<"n","a","v">>)
SelAdOrFooter == Str(<<".","a","d",","," ","f","o","o","t","e","r">>)
SelStar == Str(<<"*">>)
SelHtml == Str(<<"h","t","m","l">>)
SelBodyAny == Str(<<"b","o","d","y"," ","*">>)
SelUnclosed == Str(<<"d","i","v","[","b","a","d">>)
SelEmpty == Str(<< >>)
SelFragile == Str(<<":","h","a","s","(","p",")">>)

\* selector values given to validate_selectors directly
SelHtmlUnclosed == Str(<<"h","t","m","l","[","b","a","d">>)
SelBodyUnclosed == Str(<<" ","B","O","D","Y","[","b","a","d">>)
SelDivBody == Str(<<"d","i","v",".","b","o","d","y">>)
SelNumber == [isstr |-> FALSE, chars |-> <<"5">>]     \* a number in the list

\* PRIMARY_CONTENT_SELECTORS
SelArticle == Str(<<"a","r","t","i","c","l","e">>)
SelMain == Str(<<"m","a","i","n">>)
SelRoleMain == Str(<<"[","r","o","l","e","=","\"","m","a","i","n","\"","]">>)
PRIMARY_CONTENT_SELECTORS == << SelArticle, SelMain, SelRoleMain >>

SelectorPool ==
  {SelFooter, SelDiv, SelNav, SelAdOrFooter, SelStar, SelHtml, SelBodyAny,
   SelUnclosed, SelEmpty, SelFragile, NotAStr}

\* one compound selector: combinator to its left ("" for the first), tag ("*"
\* any), class ("" any) and role attribute ("" any)
Compound(comb, tag, cls, role) ==
  [comb |-> comb, tag |-> tag, cls |-> cls, role |-> role]
Compiled(alts) == [kind |-> "ok", alts |-> alts, etype |-> "", error |-> << >>]
Rejected(error) ==
  [kind |-> "syntax", alts |-> << >>, etype |-> "SelectorSyntaxError", error |-> error]

\* compiling a selector text: a list of alternatives, each a chain of compound
\* selectors, or a SelectorSyntaxError.  SelFragile stands for a selector that
\* compiles and runs on the one-element scratch tree of validate_selectors but
\* whose evaluation raises on a larger tree.
CssCompile(sel) ==
  CASE sel = SelFooter -> Compiled(<< << Compound("", "footer", "", "") >> >>)
    [] sel = SelDiv -> Compiled(<< << Compound("", "div", "", "") >> >>)
    [] sel = SelNav -> Compiled(<< << Compound("", "nav", "", "") >> >>)
    [] sel = SelAdOrFooter ->
         Compiled(<< << Compound("", "*", "ad", "") >>, << Compound("", "footer", "", "") >> >>)
    [] sel = SelStar -> Compiled(<< << Compound("", "*", "", "") >> >>)
    [] sel = SelHtml -> Compiled(<< << Compound("", "html", "", "") >> >>)
    [] sel = SelBodyAny ->
         Compiled(<< << Compound("", "body", "", ""), Compound(" ", "*", "", "") >> >>)
    [] sel = SelArticle -> Compiled(<< << Compound("", "article", "", "") >> >>)
    [] sel = SelMain -> Compiled(<< << Compound("", "main", "", "") >> >>)
    [] sel = SelRoleMain -> Compiled(<< << Compound("", "*", "", "main") >> >>)
    [] sel = SelFragile ->
         [kind |-> "fragile", alts |-> << << Compound("", "div", "", "") >> >>,
          etype |-> "RecursionError",
          error |-> << "maximum recursion depth exceeded" >>]
    [] sel = SelUnclosed -> Rejected(<< "Malformed attribute selector" >>)
    [] sel = SelHtmlUnclosed -> Rejected(<< "Malformed attribute selector" >>)
    [] sel = SelBodyUnclosed -> Rejected(<< "Malformed attribute selector" >>)
    [] sel = SelDivBody -> Compiled(<< << Compound("", "div", "body", "") >> >>)
    [] OTHER -> Rejected(<< "Invalid selector" >>)

MatchesCompound(sp, n, c) ==
  /\ (c.tag = "*" \/ sp.nodes[n].tag = c.tag)
  /\ (c.cls = "" \/ sp.nodes[n].cls = c.cls)
  /\ (c.role = "" \/ sp.nodes[n].role = c.role)

\* element n matches the first k compounds of the chain
RECURSIVE MatchesChain(_, _, _, _)
MatchesChain(sp, n, chain, k) ==
  /\ MatchesCompound(sp, n, chain[k])
  /\ \/ k = 1
     \/ /\ chain[k].comb = ">"
        /\ sp.nodes[n].parent # 0
        /\ MatchesChain(sp, sp.nodes[n].parent, chain, k - 1)
     \/ /\ chain[k].comb = " "
        /\ \E a \in Ancestors(sp, n) : MatchesChain(sp, a, chain, k - 1)

\* soup.select(selector): the matching elements of the tree, in document
\* order, or the exception the engine raised
select(sp, sel) ==
  LET c == CssCompile(sel)
  IN  IF c.kind = "syntax"
      THEN [raised |-> TRUE, etype |-> c.etype, error |-> c.error, elements |-> << >>]
      ELSE IF c.kind = "fragile" /\ Cardinality(find_all(sp)) > 1
      THEN [raised |-> TRUE, etype |-> c.etype, error |-> c.error, elements |-> << >>]
      ELSE [raised |-> FALSE, etype |-> "", error |-> << >>,
            elements |-> InOrder({n \in find_all(sp) :
                           \E a \in 1..Len(c.alts) :
                              MatchesChain(sp, n, c.alts[a], Len(c.alts[a]))})]

-----------------------------------------------------------------------------
(* Exceptions. *)

Exception(type, message) == [type |-> type, message |-> message]

\* isinstance(e, cls) for the classes the except clauses name
IsInstance(e, cls) ==
  CASE cls = "Exception" -> TRUE
    [] cls = "TooManySelectorError" -> e.type = "TooManySelectorError"
    [] OTHER -> e.type = cls

Text(parts) == [text |-> parts]          \* a str built from these parts

-----------------------------------------------------------------------------
(* validate_selectors *)

\* variants of the cap test: ">=" for ">", and a limit one too high
CapExceededAtLimit(total_count, max_selectors) == total_count >= max_selectors
CapExceededLate(total_count, max_selectors) == total_count > max_selectors + 1

CapExceeded(total_count, max_selectors) == total_count > max_selectors

ExclusionSelector(selector, reason) == [selector |-> selector, reason |-> reason]

\* the scratch tree validate_selectors compiles each selector against
ScratchSoup == BeautifulSoup(<< Open("div", "", "", ""), Close("div") >>)

\* variant of the loop body with the syntax check ahead of the protection check
ClassifySelectorSyntaxFirst(selector) ==
  IF Falsy(selector) \/ ~selector.isstr
  THEN [valid |-> FALSE,
        entry |-> ExclusionSelector(IF Falsy(selector) THEN Str(<< >>) ELSE selector,
                                    Text(<< "Empty or invalid selector" >>))]
  ELSE LET r == select(ScratchSoup, selector)
       IN  IF r.raised
           THEN [valid |-> FALSE,
                 entry |-> ExclusionSelector(selector,
                             Text(<< "Invalid CSS selector syntax: " >> \o r.error))]
           ELSE IF is_protected_selector(selector)
           THEN [valid |-> FALSE,
                 entry |-> ExclusionSelector(selector,
                             Text(<< "Protected selector (html/body cannot be excluded)" >>))]
           ELSE [valid |-> TRUE, entry |-> ExclusionSelector(selector, None)]

\* the body of the loop of validate_selectors for one selector: the list it is
\* appended to and the entry appended
ClassifySelector(selector) ==
  IF Falsy(selector) \/ ~selector.isstr
  THEN [valid |-> FALSE,
        entry |-> ExclusionSelector(IF Falsy(selector) THEN Str(<< >>) ELSE selector,
                                    Text(<< "Empty or invalid selector" >>))]
  ELSE IF is_protected_selector(selector)
  THEN [valid |-> FALSE,
        entry |-> ExclusionSelector(selector,
                    Text(<< "Protected selector (html/body cannot be excluded)" >>))]
  ELSE LET r == select(ScratchSoup, selector)
       IN  IF r.raised
           THEN [valid |-> FALSE,
                 entry |-> ExclusionSelector(selector,
                             Text(<< "Invalid CSS selector syntax: " >> \o r.error))]
           ELSE [valid |-> TRUE, entry |-> ExclusionSelector(selector, None)]

\* the loop of validate_selectors: the entries of each list, in input order
ClassifyAll(sels) ==
  LET classified == [i \in 1..Len(sels) |-> ClassifySelector(sels[i])]
      accepted == SelectSeq(classified, LAMBDA c : c.valid)
      refused == SelectSeq(classified, LAMBDA c : ~c.valid)
  IN  [valid |-> [i \in 1..Len(accepted) |-> accepted[i].entry],
       invalid |-> [i \in 1..Len(refused) |-> refused[i].entry]]

\* variant that classifies first and applies the cap to the accepted selectors
validate_selectors_classify_first(sels, max_selectors) ==
  LET c == ClassifyAll(sels)
  IN  IF CapExceeded(Len(c.valid), max_selectors)
      THEN [raised |-> TRUE,
            exc |-> Exception("TooManySelectorError",
                      << "Too many selectors: ", Len(c.valid),
                         " provided, limit is ", max_selectors >>),
            result |-> None]
      ELSE [raised |-> FALSE, exc |-> None,
            result |-> [valid |-> c.valid, invalid |-> c.invalid,
                        total_count |-> Len(sels), cap_exceeded |-> FALSE]]

validate_selectors(sels, max_selectors) ==
  LET total_count == Len(sels)
  IN  IF CapExceeded(total_count, max_selectors)
      THEN [raised |-> TRUE,
            exc |-> Exception("TooManySelectorError",
                      << "Too many selectors: ", total_count,
                         " provided, limit is ", max_selectors >>),
            result |-> None]
      ELSE LET c == ClassifyAll(sels)
           IN  [raised |-> FALSE, exc |-> None,
                result |-> [valid |-> c.valid, invalid |-> c.invalid,
                            total_count |-> total_count, cap_exceeded |-> FALSE]]

-----------------------------------------------------------------------------
(* apply_exclusions: the body of the loop over validation.valid *)

SelectorResult(selector, success, elements_removed, error_message) ==
  [selector |-> selector, success |-> success,
   elements_removed |-> elements_removed, error_message |-> error_message]

\* variant of the loop that removes the first matching element only
DecomposeFirstOnly(sp, elements, i) ==
  IF elements = << >> THEN sp ELSE decompose(sp, elements[1])

\* "for element in matching_elements: element.decompose()"
RECURSIVE DecomposeAll(_, _, _)
DecomposeAll(sp, elements, i) ==
  IF i > Len(elements) THEN sp
  ELSE DecomposeAll(decompose(sp, elements[i]), elements, i + 1)

\* variants of the try block: the count taken as the number of elements that
\* left the tree; an empty match treated as an error; and a query that fails
\* only after elements were removed
TrySelectorCountRemoved(sp, selector) ==
  LET matching_elements == select(sp, selector)
      after == DecomposeAll(sp, matching_elements.elements, 1)
  IN  IF matching_elements.raised
      THEN [raised |-> TRUE,
            exc |-> Exception(matching_elements.etype, matching_elements.error),
            soup |-> sp, elements_removed |-> 0]
      ELSE [raised |-> FALSE, exc |-> None, soup |-> after,
            elements_removed |-> Cardinality(find_all(sp)) - Cardinality(find_all(after))]
TrySelectorEmptyFails(sp, selector) ==
  LET matching_elements == select(sp, selector)
  IN  IF matching_elements.raised
      THEN [raised |-> TRUE,
            exc |-> Exception(matching_elements.etype, matching_elements.error),
            soup |-> sp, elements_removed |-> 0]
      ELSE IF matching_elements.elements = << >>
      THEN [raised |-> TRUE, exc |-> Exception("ValueError", << "No elements matched" >>),
            soup |-> sp, elements_removed |-> 0]
      ELSE [raised |-> FALSE, exc |-> None,
            soup |-> DecomposeAll(sp, matching_elements.elements, 1),
            elements_removed |-> Len(matching_elements.elements)]
TrySelectorRaiseAfterRemoval(sp, selector) ==
  LET matching_elements == select(sp, selector)
      c == CssCompile(selector)
      partial == InOrder({n \in find_all(sp) :
                   \E a \in 1..Len(c.alts) : MatchesChain(sp, n, c.alts[a], Len(c.alts[a]))})
  IN  IF matching_elements.raised
      THEN [raised |-> TRUE,
            exc |-> Exception(matching_elements.etype, matching_elements.error),
            soup |-> DecomposeAll(sp, partial, 1), elements_removed |-> 0]
      ELSE [raised |-> FALSE, exc |-> None,
            soup |-> DecomposeAll(sp, matching_elements.elements, 1),
            elements_removed |-> Len(matching_elements.elements)]

\* the try block for one selector: query, count, remove
TrySelector(sp, selector) ==
  LET matching_elements == select(sp, selector)
  IN  IF matching_elements.raised
      THEN [raised |-> TRUE,
            exc |-> Exception(matching_elements.etype, matching_elements.error),
            soup |-> sp, elements_removed |-> 0]
      ELSE [raised |-> FALSE, exc |-> None,
            soup |-> DecomposeAll(sp, matching_elements.elements, 1),
            elements_removed |-> Len(matching_elements.elements)]

\* variants of the except clause: one that catches nothing, one that catches
\* only the engine's syntax error
SelectorExceptNothing(e) == FALSE
SelectorExceptSyntaxOnly(e) == IsInstance(e, "SelectorSyntaxError")

\* "except Exception as e" of the loop: which exceptions the clause catches
SelectorExcept(e) == IsInstance(e, "Exception")

\* variants of the loop over validation.invalid: one outcome per distinct
\* rejected entry, and outcomes that do not carry the rejection reason
InvalidResultsDistinct(invalid) ==
  LET positions == [i \in 1..Len(invalid) |-> i]
      first == SelectSeq(positions,
                 LAMBDA i : \A j \in 1..(i - 1) : invalid[j] # invalid[i])
  IN  [k \in 1..Len(first) |->
         [selector |-> invalid[first[k]].selector, success |-> FALSE,
          elements_removed |-> 0, error_message |-> invalid[first[k]].reason]]
InvalidResultsReversed(invalid) ==
  [i \in 1..Len(invalid) |->
     [selector |-> invalid[Len(invalid) + 1 - i].selector, success |-> FALSE,
      elements_removed |-> 0, error_message |-> invalid[Len(invalid) + 1 - i].reason]]
InvalidResultsNoReason(invalid) ==
  [i \in 1..Len(invalid) |->
     [selector |-> invalid[i].selector, success |-> FALSE,
      elements_removed |-> 0, error_message |-> None]]

\* "for exclusion_selector in validation.invalid": one failed outcome each
InvalidResults(invalid) ==
  [i \in 1..Len(invalid) |->
     SelectorResult(invalid[i].selector, FALSE, 0, invalid[i].reason)]

-----------------------------------------------------------------------------
(* Empty primary content. *)

ContentTags == {"video", "audio", "iframe", "form", "table", "canvas", "svg"}

\* variant that looks at the element's children only
has_meaningful_content_shallow(sp, element) ==
  LET below == {d \in find_all(sp) : sp.nodes[d].parent = element}
  IN  IF \E d \in below : sp.nodes[d].tag = "img" THEN TRUE
      ELSE IF \E d \in below : sp.nodes[d].tag = "a" THEN TRUE
      ELSE IF \E d \in below \cup {element} : sp.nodes[d].text = "text" THEN TRUE
      ELSE \E d \in below : sp.nodes[d].tag \in ContentTags

has_meaningful_content(sp, element) ==
  LET below == Descendants(sp, element) \cap find_all(sp)
  IN  IF \E d \in below : sp.nodes[d].tag = "img" THEN TRUE
      ELSE IF \E d \in below : sp.nodes[d].tag = "a" THEN TRUE
      ELSE IF \E d \in below \cup {element} : sp.nodes[d].text = "text" THEN TRUE
      ELSE \E d \in below : sp.nodes[d].tag \in ContentTags

is_content_element_empty(sp, element) == ~has_meaningful_content(sp, element)

RECURSIVE FoundPrimary(_, _)
FoundPrimary(sp, i) ==
  IF i > Len(PRIMARY_CONTENT_SELECTORS) THEN << >>
  ELSE select(sp, PRIMARY_CONTENT_SELECTORS[i]).elements \o FoundPrimary(sp, i + 1)

\* variant that reports as soon as one primary element is empty
detect_any_empty_primary_content(sp) ==
  LET found_primary_elements == FoundPrimary(sp, 1)
  IN  IF found_primary_elements = << >> THEN TRUE
      ELSE \E i \in 1..Len(found_primary_elements) :
             ~has_meaningful_content(sp, found_primary_elements[i])

detect_empty_primary_content(sp) ==
  LET found_primary_elements == FoundPrimary(sp, 1)
  IN  IF found_primary_elements = << >> THEN TRUE
      ELSE ~ \E i \in 1..Len(found_primary_elements) :
               has_meaningful_content(sp, found_primary_elements[i])

-----------------------------------------------------------------------------
(* ExclusionSummary and aggregate_exclusion_summary. *)

\* sum(r.elements_removed for r in selector_results[lo..hi])
RECURSIVE SumRemoved(_, _, _)
SumRemoved(results, lo, hi) ==
  IF lo > hi THEN 0
  ELSE IF lo = hi THEN results[lo].elements_removed
  ELSE LET mid == (lo + hi) \div 2
       IN  SumRemoved(results, lo, mid) + SumRemoved(results, mid + 1, hi)

\* sum(1 for r in selector_results if r.success is flag)
CountWhere(results, flag) == Len(SelectSeq(results, LAMBDA r : r.success = flag))

\* variant that counts the outcomes that removed something
successful_count_by_removal(results) ==
  Cardinality({i \in 1..Len(results) : results[i].elements_removed > 0})

successful_count(results) == CountWhere(results, TRUE)
failed_count(results) == CountWhere(results, FALSE)

\* variant that looks for empty primary content only when something was removed
aggregate_exclusion_summary_if_removed(results, original_count, sp) ==
  [selectors_processed |-> Len(results),
   elements_removed |-> SumRemoved(results, 1, Len(results)),
   original_element_count |-> original_count,
   successful_selectors |-> successful_count(results),
   failed_selectors |-> failed_count(results),
   empty_primary_content_warning |->
     (SumRemoved(results, 1, Len(results)) > 0 /\ detect_empty_primary_content(sp))]

aggregate_exclusion_summary(results, original_count, sp) ==
  [selectors_processed |-> Len(results),
   elements_removed |-> SumRemoved(results, 1, Len(results)),
   original_element_count |-> original_count,
   successful_selectors |-> successful_count(results),
   failed_selectors |-> failed_count(results),
   empty_primary_content_warning |-> detect_empty_primary_content(sp)]

\* a float result as the exact fraction num/den, den > 0
Fraction(num, den) == [num |-> num, den |-> den]
FractionGE(a, b) == a.num * b.den >= b.num * a.den

\* ExclusionSummary.removal_ratio
removal_ratio(summary) ==
  IF summary.original_element_count = 0 THEN Fraction(0, 1)
  ELSE Fraction(summary.elements_removed, summary.original_element_count)

\* variant with ">" for ">="
AboveThreshold(ratio) == ratio.num * WarnDen > WarnNum * ratio.den

\* "self.removal_ratio >= 0.4"
AtOrAboveThreshold(ratio) == FractionGE(ratio, Fraction(WarnNum, WarnDen))

\* ExclusionSummary.high_removal_warning
high_removal_warning(summary) == AtOrAboveThreshold(removal_ratio(summary))

-----------------------------------------------------------------------------
(* Log records. *)

NoExtra == [k \in {} |-> ""]
LogRecord(level, message, extra) == [level |-> level, message |-> message, extra |-> extra]

\* the exception a logger call raises when a handler or filter of the
\* embedding application fails
LoggingFailure == Exception("LoggingError", << "logging failed" >>)

\* measure_time: the records written on entry and in the finally clause
TimerStartRecord == LogRecord("debug", << "Starting ", "exclusion" >>, NoExtra)
TimerDoneRecord ==
  LogRecord("info", << "Completed ", "exclusion" >>,
            [operation |-> "exclusion", elapsed_ms |-> "measured",
             elapsed_seconds |-> "measured"])

\* log_exclusion_warnings: one warning per failed outcome
FailedSelectorRecords(results) ==
  LET invalid_selectors == SelectSeq(results, LAMBDA r : ~r.success)
  IN  [i \in 1..Len(invalid_selectors) |->
         LogRecord("warning", << "Exclusion selector failed" >>,
           [selector |-> invalid_selectors[i].selector,
            error |-> invalid_selectors[i].error_message,
            operation |-> "exclude"])]

\* variant that writes the summary line first
ExclusionWarningRecordsSummaryFirst(result) ==
  LET summary == result.summary
  IN  (IF summary.elements_removed > 0
          THEN << LogRecord("info", << "Exclusion summary" >>,
                    [selectors_processed |-> summary.selectors_processed,
                     successful_selectors |-> summary.successful_selectors,
                     failed_selectors |-> summary.failed_selectors,
                     elements_removed |-> summary.elements_removed,
                     removal_ratio |-> removal_ratio(summary),
                     operation |-> "exclude"]) >>
          ELSE << >>)
      \o FailedSelectorRecords(result.selector_results)
      \o (IF high_removal_warning(summary)
          THEN << LogRecord("warning", << "High removal ratio detected" >>,
                    [removal_ratio |-> removal_ratio(summary),
                     elements_removed |-> summary.elements_removed,
                     original_count |-> summary.original_element_count,
                     warning_type |-> "high_removal"]) >>
          ELSE << >>)
      \o (IF summary.empty_primary_content_warning
          THEN << LogRecord("warning",
                    << "Primary content elements (article, main) appear to be empty after exclusions" >>,
                    [warning_type |-> "empty_primary_content",
                     elements_removed |-> summary.elements_removed,
                     operation |-> "exclude"]) >>
          ELSE << >>)

\* log_exclusion_warnings: every record it writes, in order
ExclusionWarningRecords(result) ==
  LET summary == result.summary
  IN  FailedSelectorRecords(result.selector_results)
      \o (IF high_removal_warning(summary)
          THEN << LogRecord("warning", << "High removal ratio detected" >>,
                    [removal_ratio |-> removal_ratio(summary),
                     elements_removed |-> summary.elements_removed,
                     original_count |-> summary.original_element_count,
                     warning_type |-> "high_removal"]) >>
          ELSE << >>)
      \o (IF summary.empty_primary_content_warning
          THEN << LogRecord("warning",
                    << "Primary content elements (article, main) appear to be empty after exclusions" >>,
                    [warning_type |-> "empty_primary_content",
                     elements_removed |-> summary.elements_removed,
                     operation |-> "exclude"]) >>
          ELSE << >>)
      \o (IF summary.elements_removed > 0
          THEN << LogRecord("info", << "Exclusion summary" >>,
                    [selectors_processed |-> summary.selectors_processed,
                     successful_selectors |-> summary.successful_selectors,
                     failed_selectors |-> summary.failed_selectors,
                     elements_removed |-> summary.elements_removed,
                     removal_ratio |-> removal_ratio(summary),
                     operation |-> "exclude"]) >>
          ELSE << >>)

\* log_exclusion_errors: the record it writes
ExclusionErrorRecord(error, sels) ==
  IF IsInstance(error, "TooManySelectorError")
  THEN LogRecord("warning",
         << "Too many exclusion selectors provided: ", Len(sels), " selectors exceed limit" >>,
         [selector_count |-> Len(sels), error_type |-> "too_many_selectors",
          operation |-> "exclude"])
  ELSE LogRecord("error", << "Exclusion operation failed: " >> \o error.message,
         [error |-> error.message, selector_count |-> Len(sels),
          error_type |-> error.type, operation |-> "exclude"])

-----------------------------------------------------------------------------
(* The exclusion step of capture_html_to_obsidian, with apply_exclusions    *)
(* unfolded into its steps.                                                 *)

\* an exception on its way to the except clauses of capture_html_to_obsidian,
\* with the call that let it out
Raised(e, origin) == [type |-> e.type, message |-> e.message, origin |-> origin]

\* nothing after the extraction call has run
DownstreamIdle ==
  /\ dry_run = FALSE
  /\ metadata_input = None
  /\ front_matter_input = None
  /\ capture_result = None
  /\ capture_error = None

\* main() is not running
CliIdle ==
  /\ args = None
  /\ output = << >>
  /\ exit_code = None

ShortLists == UNION {[1..n -> SelectorPool] : n \in 0..MaxLen}
\* lists at the cap and past it
LongLists == {[i \in 1..n |-> SelFooter] : n \in MaxSelectors..(MaxSelectors + MaxOver)}

\* the state once fetch_html has returned
Init ==
  /\ content \in DocPool
  /\ selectors \in ShortLists \cup (IF content = DocPage THEN LongLists ELSE {})
  /\ pc = "start"
  /\ html_content = content
  /\ soup = None
  /\ original_element_count = -1
  /\ validation = None
  /\ idx = 0
  /\ selector_results = << >>
  /\ total_removed = 0
  /\ exclusion_result = None
  /\ exclusion_timing_ms = None
  /\ log = << >>
  /\ exc = None
  /\ extraction_input = None
  /\ summary_in = None
  /\ result_out = None
  /\ DownstreamIdle
  /\ CliIdle

\* "if request.config.exclusion_selectors:"
CheckConfigured ==
  /\ pc = "start"
  /\ pc' = IF selectors # << >> THEN "timer_enter" ELSE "extract"
  /\ UNCHANGED <<content, selectors, html_content, soup, original_element_count,
                 validation, idx, selector_results, total_removed, exclusion_result,
                 exclusion_timing_ms, log, exc, extraction_input, summary_in, result_out,
                 downstream, cli>>

\* entering "with measure_time(...)": logger.debug, which returns or raises
TimerEnter ==
  /\ pc = "timer_enter"
  /\ \/ /\ log' = Append(log, TimerStartRecord)
        /\ pc' = "parse"
        /\ exc' = exc
     \/ /\ log' = log
        /\ pc' = "except"
        /\ exc' = Raised(LoggingFailure, "measure_time")
  /\ UNCHANGED <<content, selectors, html_content, soup, original_element_count,
                 validation, idx, selector_results, total_removed, exclusion_result,
                 exclusion_timing_ms, extraction_input, summary_in, result_out,
                 downstream, cli>>

\* soup = BeautifulSoup(html_content, "html.parser")
ParseSoup ==
  /\ pc = "parse"
  /\ soup' = BeautifulSoup(html_content)
  /\ pc' = "census"
  /\ UNCHANGED <<content, selectors, html_content, original_element_count,
                 validation, idx, selector_results, total_removed, exclusion_result,
                 exclusion_timing_ms, log, exc, extraction_input, summary_in, result_out,
                 downstream, cli>>

\* apply_exclusions: original_element_count = len(soup.find_all())
Census ==
  /\ pc = "census"
  /\ original_element_count' = Cardinality(find_all(soup))
  /\ pc' = "validate"
  /\ UNCHANGED <<content, selectors, html_content, soup,
                 validation, idx, selector_results, total_removed, exclusion_result,
                 exclusion_timing_ms, log, exc, extraction_input, summary_in, result_out,
                 downstream, cli>>

\* apply_exclusions: validation = validate_selectors(selectors); a
\* TooManySelectorError is re-raised and leaves apply_exclusions
Validate ==
  /\ pc = "validate"
  /\ LET v == validate_selectors(selectors, MaxSelectors)
     IN  IF v.raised
         THEN /\ exc' = Raised(v.exc, "apply_exclusions")
              /\ pc' = "timer_exit"
              /\ UNCHANGED <<validation, idx, selector_results, total_removed,
                 downstream, cli>>
         ELSE /\ validation' = v.result
              /\ selector_results' = << >>
              /\ total_removed' = 0
              /\ idx' = 1
              /\ pc' = "apply_valid"
              /\ exc' = exc
  /\ UNCHANGED <<content, selectors, html_content, soup, original_element_count,
                 exclusion_result, exclusion_timing_ms, log, extraction_input,
                 summary_in, result_out,
                 downstream, cli>>

\* apply_exclusions: one iteration of "for exclusion_selector in validation.valid"
ApplyValid ==
  /\ pc = "apply_valid"
  /\ idx <= Len(validation.valid)
  /\ LET selector == validation.valid[idx].selector
         r == TrySelector(soup, selector)
     IN  IF ~r.raised
         THEN /\ soup' = r.soup
              /\ total_removed' = total_removed + r.elements_removed
              /\ selector_results' = Append(selector_results,
                    SelectorResult(selector, TRUE, r.elements_removed, None))
              /\ idx' = idx + 1
              /\ pc' = pc
              /\ exc' = exc
         ELSE IF SelectorExcept(r.exc)
         THEN /\ soup' = r.soup
              /\ total_removed' = total_removed
              /\ selector_results' = Append(selector_results,
                    SelectorResult(selector, FALSE, 0,
                      Text(<< "Failed to apply selector: " >> \o r.exc.message)))
              /\ idx' = idx + 1
              /\ pc' = pc
              /\ exc' = exc
         ELSE /\ soup' = r.soup
              /\ exc' = Raised(r.exc, "apply_exclusions")
              /\ pc' = "timer_exit"
              /\ UNCHANGED <<total_removed, selector_results, idx,
                 downstream, cli>>
  /\ UNCHANGED <<content, selectors, html_content, original_element_count,
                 validation, exclusion_result, exclusion_timing_ms, log,
                 extraction_input, summary_in, result_out,
                 downstream, cli>>

\* apply_exclusions: "for exclusion_selector in validation.invalid"
AppendInvalid ==
  /\ pc = "apply_valid"
  /\ idx > Len(validation.valid)
  /\ selector_results' = selector_results \o InvalidResults(validation.invalid)
  /\ pc' = "aggregate"
  /\ UNCHANGED <<content, selectors, html_content, soup, original_element_count,
                 validation, idx, total_removed, exclusion_result,
                 exclusion_timing_ms, log, exc, extraction_input, summary_in, result_out,
                 downstream, cli>>

\* apply_exclusions: the summary and the return to capture_html_to_obsidian
AggregateAndReturn ==
  /\ pc = "aggregate"
  /\ exclusion_result' =
       [soup |-> soup,
        summary |-> aggregate_exclusion_summary(selector_results,
                                                original_element_count, soup),
        selector_results |-> selector_results]
  /\ pc' = "serialize"
  /\ UNCHANGED <<content, selectors, html_content, soup, original_element_count,
                 validation, idx, selector_results, total_removed,
                 exclusion_timing_ms, log, exc, extraction_input, summary_in, result_out,
                 downstream, cli>>

\* html_content = str(exclusion_result.soup)
Serialize ==
  /\ pc = "serialize"
  /\ html_content' = SoupStr(exclusion_result.soup)
  /\ pc' = "timer_exit"
  /\ UNCHANGED <<content, selectors, soup, original_element_count,
                 validation, idx, selector_results, total_removed, exclusion_result,
                 exclusion_timing_ms, log, exc, extraction_input, summary_in, result_out,
                 downstream, cli>>

\* leaving "with measure_time(...)", normally or with an exception in flight:
\* the finally clause writes its record, and the logger returns or raises
TimerExit ==
  /\ pc = "timer_exit"
  /\ \/ /\ log' = Append(log, TimerDoneRecord)
        /\ exc' = exc
        /\ pc' = IF exc = None THEN "timing" ELSE "except"
     \/ /\ log' = log
        /\ exc' = Raised(LoggingFailure, "measure_time")
        /\ pc' = "except"
  /\ UNCHANGED <<content, selectors, html_content, soup, original_element_count,
                 validation, idx, selector_results, total_removed, exclusion_result,
                 exclusion_timing_ms, extraction_input, summary_in, result_out,
                 downstream, cli>>

\* exclusion_timing_ms = timer.elapsed_ms()
CaptureTiming ==
  /\ pc = "timing"
  /\ exclusion_timing_ms' = [ms |-> "measured"]
  /\ pc' = "log_warnings"
  /\ UNCHANGED <<content, selectors, html_content, soup, original_element_count,
                 validation, idx, selector_results, total_removed, exclusion_result,
                 log, exc, extraction_input, summary_in, result_out,
                 downstream, cli>>

\* log_exclusion_warnings(exclusion_result): every record is written, or the
\* logger raises at one of them
LogWarnings ==
  /\ pc = "log_warnings"
  /\ LET records == ExclusionWarningRecords(exclusion_result)
     IN  \/ /\ log' = log \o records
            /\ pc' = "extract"
            /\ exc' = exc
         \/ \E k \in 1..Len(records) :
              /\ log' = log \o SubSeq(records, 1, k - 1)
              /\ pc' = "except"
              /\ exc' = Raised(LoggingFailure, "log_exclusion_warnings")
  /\ UNCHANGED <<content, selectors, html_content, soup, original_element_count,
                 validation, idx, selector_results, total_removed, exclusion_result,
                 exclusion_timing_ms, extraction_input, summary_in, result_out,
                 downstream, cli>>

\* "except TooManySelectorError" and "except Exception" of the exclusion step
CaptureExcept(e) == IsInstance(e, "TooManySelectorError") \/ IsInstance(e, "Exception")

\* the except clauses: log_exclusion_errors(e, selectors), whose logger call
\* returns or raises; an exception nothing catches leaves the capture
HandleExclusionError ==
  /\ pc = "except"
  /\ IF CaptureExcept(exc)
     THEN \/ /\ log' = Append(log, ExclusionErrorRecord(exc, selectors))
             /\ pc' = "extract"
             /\ exc' = exc
          \/ /\ log' = log
             /\ pc' = "crashed"
             /\ exc' = Raised(LoggingFailure, "log_exclusion_errors")
     ELSE /\ log' = log
          /\ pc' = "crashed"
          /\ exc' = exc
  /\ UNCHANGED <<content, selectors, html_content, soup, original_element_count,
                 validation, idx, selector_results, total_removed, exclusion_result,
                 exclusion_timing_ms, extraction_input, summary_in, result_out,
                 downstream, cli>>

\* extract_content_with_selectors(html_content=html_content, ...)
Extract ==
  /\ pc = "extract"
  /\ extraction_input' = [html_content |-> html_content]
  /\ pc' = "done"
  /\ UNCHANGED <<content, selectors, html_content, soup, original_element_count,
                 validation, idx, selector_results, total_removed, exclusion_result,
                 exclusion_timing_ms, log, exc, summary_in, result_out,
                 downstream, cli>>

Next ==
  \/ CheckConfigured
  \/ TimerEnter
  \/ ParseSoup
  \/ Census
  \/ Validate
  \/ ApplyValid
  \/ AppendInvalid
  \/ AggregateAndReturn
  \/ Serialize
  \/ TimerExit
  \/ CaptureTiming
  \/ LogWarnings
  \/ HandleExclusionError
  \/ Extract

Spec == Init /\ [][Next]_vars

-----------------------------------------------------------------------------
(* capture_html_to_obsidian from the extraction call to its return.         *)

\* errors.py: CaptureError.__init__(message, code, exit_code)
CaptureError(code, status) ==
  [type |-> "CaptureError", code |-> code, exit_code |-> status]

CaptureNoSelectorMatchError == CaptureError("NO_SELECTOR_MATCH", 2)
CaptureTimeoutError == CaptureError("TIMEOUT", 3)
CaptureSizeLimitError == CaptureError("SIZE_LIMIT", 4)
CaptureEncodingError == CaptureError("ENCODING_ERROR", 5)
CaptureFetchError == CaptureError("FETCH_ERROR", 6)
CaptureConversionError == CaptureError("CONVERSION_ERROR", 7)
CaptureWriteError == CaptureError("WRITE_ERROR", 8)
GenericError == CaptureError("GENERIC_ERROR", 1)

\* an exception that is not a CaptureError
OtherError(type) == [type |-> type]

\* extract.py: "if not selectors: raise ExtractionError(...)"
ExtractionError == OtherError("ExtractionError")

\* the document the exclusion step may have rewritten
excluded_html_content == html_content

\* article_source.content
article_source_content == content

\* variant that reports the selectors that succeeded
exclusions_applied_successful ==
  IF exclusion_result # None THEN exclusion_result.summary.successful_selectors ELSE 0

\* CaptureResult.exclusions_applied and CaptureResult.elements_excluded
exclusions_applied ==
  IF exclusion_result # None THEN exclusion_result.summary.selectors_processed ELSE 0
elements_excluded ==
  IF exclusion_result # None THEN exclusion_result.summary.elements_removed ELSE 0

CaptureResult(applied, excluded, timing) ==
  [kind |-> "CaptureResult", exclusions_applied |-> applied,
   elements_excluded |-> excluded, exclusion_timing_ms |-> timing]

DryRunResult == [kind |-> "DryRunResult"]

\* extract_content_with_selectors returns, raises NoSelectorMatchError (which
\* is re-raised as the structured error) or raises ExtractionError (which no
\* except clause names); request.config.selectors and min_content_chars decide
ExtractionOutcome ==
  /\ pc = "done"
  /\ \/ /\ pc' = "metadata"
        /\ capture_error' = capture_error
     \/ /\ pc' = "raised"
        /\ capture_error' = CaptureNoSelectorMatchError
     \/ /\ pc' = "raised"
        /\ capture_error' = ExtractionError
  /\ UNCHANGED <<content, selectors, html_content, soup, original_element_count,
                 validation, idx, selector_results, total_removed, exclusion_result,
                 exclusion_timing_ms, log, exc, extraction_input, summary_in, result_out,
                 dry_run, metadata_input, front_matter_input, capture_result, cli>>

\* Step 3: extract_metadata_from_html(html_content=article_source.content, ...)
ExtractMetadata ==
  /\ pc = "metadata"
  /\ metadata_input' = [html_content |-> article_source_content]
  /\ pc' = "convert"
  /\ UNCHANGED <<content, selectors, html_content, soup, original_element_count,
                 validation, idx, selector_results, total_removed, exclusion_result,
                 exclusion_timing_ms, log, exc, extraction_input, summary_in, result_out,
                 dry_run, front_matter_input, capture_result, capture_error, cli>>

\* Step 4 and Step 5: convert_html_to_markdown returns or raises
\* ConversionError; generate_full_path follows
Convert ==
  /\ pc = "convert"
  /\ \/ /\ pc' = "path"
        /\ capture_error' = capture_error
     \/ /\ pc' = "raised"
        /\ capture_error' = CaptureConversionError
  /\ UNCHANGED <<content, selectors, html_content, soup, original_element_count,
                 validation, idx, selector_results, total_removed, exclusion_result,
                 exclusion_timing_ms, log, exc, extraction_input, summary_in, result_out,
                 dry_run, metadata_input, front_matter_input, capture_result, cli>>

\* "if request.dry_run:": generate_front_matter and return DryRunResult
DryRun ==
  /\ pc = "path"
  /\ dry_run
  /\ front_matter_input' = [html_content |-> article_source_content]
  /\ capture_result' = DryRunResult
  /\ pc' = "returned"
  /\ UNCHANGED <<content, selectors, html_content, soup, original_element_count,
                 validation, idx, selector_results, total_removed, exclusion_result,
                 exclusion_timing_ms, log, exc, extraction_input, summary_in, result_out,
                 dry_run, metadata_input, capture_error, cli>>

\* Step 6: create_note_file generates the front matter, then writes the file
\* or raises WriteError
WriteNote ==
  /\ pc = "path"
  /\ ~dry_run
  /\ front_matter_input' = [html_content |-> article_source_content]
  /\ \/ /\ pc' = "written"
        /\ capture_error' = capture_error
     \/ /\ pc' = "raised"
        /\ capture_error' = CaptureWriteError
  /\ UNCHANGED <<content, selectors, html_content, soup, original_element_count,
                 validation, idx, selector_results, total_removed, exclusion_result,
                 exclusion_timing_ms, log, exc, extraction_input, summary_in, result_out,
                 dry_run, metadata_input, capture_result, cli>>

\* "return CaptureResult(...)"
ReturnCaptureResult ==
  /\ pc = "written"
  /\ capture_result' = CaptureResult(exclusions_applied, elements_excluded,
                                     exclusion_timing_ms)
  /\ pc' = "returned"
  /\ UNCHANGED <<content, selectors, html_content, soup, original_element_count,
                 validation, idx, selector_results, total_removed, exclusion_result,
                 exclusion_timing_ms, log, exc, extraction_input, summary_in, result_out,
                 dry_run, metadata_input, front_matter_input, capture_error, cli>>

\* selectors of each outcome: removing, matching nothing, protected,
\* rejected for syntax, failing on the document
CapturePool == {SelFooter, SelDiv, SelNav, SelStar, SelHtml, SelUnclosed, SelFragile}
CaptureLists == UNION {[1..n -> CapturePool] : n \in 0..MaxLen}

\* the documents a whole capture is run on
CaptureDocs == DocPool \cup {DocHollow}

\* the state once fetch_html has returned, for either value of --dry
InitCapture ==
  /\ content \in CaptureDocs
  /\ selectors \in CaptureLists
                     \cup (IF content = DocPage
                           THEN {[i \in 1..(MaxSelectors + 1) |-> SelFooter]}
                           ELSE {})
  /\ pc = "start"
  /\ html_content = content
  /\ soup = None
  /\ original_element_count = -1
  /\ validation = None
  /\ idx = 0
  /\ selector_results = << >>
  /\ total_removed = 0
  /\ exclusion_result = None
  /\ exclusion_timing_ms = None
  /\ log = << >>
  /\ exc = None
  /\ extraction_input = None
  /\ summary_in = None
  /\ result_out = None
  /\ dry_run \in BOOLEAN
  /\ metadata_input = None
  /\ front_matter_input = None
  /\ capture_result = None
  /\ capture_error = None
  /\ CliIdle

NextCapture ==
  \/ CheckConfigured
  \/ TimerEnter
  \/ ParseSoup
  \/ Census
  \/ Validate
  \/ ApplyValid
  \/ AppendInvalid
  \/ AggregateAndReturn
  \/ Serialize
  \/ TimerExit
  \/ CaptureTiming
  \/ LogWarnings
  \/ HandleExclusionError
  \/ Extract
  \/ ExtractionOutcome
  \/ ExtractMetadata
  \/ Convert
  \/ DryRun
  \/ WriteNote
  \/ ReturnCaptureResult

SpecCapture == InitCapture /\ [][NextCapture]_vars

-----------------------------------------------------------------------------
(* ExclusionSummary built directly and read.                               *)

\* the capture variables at rest
CaptureIdle ==
  /\ content = DocEmpty
  /\ selectors = << >>
  /\ html_content = DocEmpty
  /\ validation = None
  /\ idx = 0
  /\ total_removed = 0
  /\ exclusion_result = None
  /\ exclusion_timing_ms = None
  /\ log = << >>
  /\ exc = None
  /\ extraction_input = None

InitSummary ==
  /\ CaptureIdle
  /\ pc = "summary_new"
  /\ soup = None
  /\ original_element_count = -1
  /\ selector_results = << >>
  /\ \E removed \in 0..MaxCount, original \in 0..MaxCount :
       summary_in = [selectors_processed |-> 0, elements_removed |-> removed,
                     original_element_count |-> original,
                     successful_selectors |-> 0, failed_selectors |-> 0,
                     empty_primary_content_warning |-> FALSE]
  /\ result_out = None
  /\ DownstreamIdle
  /\ CliIdle

\* reading the two derived properties of the summary
ReadSummary ==
  /\ pc = "summary_new"
  /\ result_out' = [removal_ratio |-> removal_ratio(summary_in),
                    high_removal_warning |-> high_removal_warning(summary_in)]
  /\ pc' = "summary_read"
  /\ UNCHANGED <<content, selectors, html_content, soup, original_element_count,
                 validation, idx, selector_results, total_removed, exclusion_result,
                 exclusion_timing_ms, log, exc, extraction_input, summary_in,
                 downstream, cli>>

NextSummary == ReadSummary

SpecSummary == InitSummary /\ [][NextSummary]_vars

-----------------------------------------------------------------------------
(* aggregate_exclusion_summary called on an outcome list built directly.    *)

OutcomePool ==
  {SelectorResult(SelFooter, TRUE, n, None) : n \in 0..MaxRemoved}
  \cup {SelectorResult(SelUnclosed, FALSE, n, Text(<< "Invalid syntax" >>)) :
          n \in 0..MaxRemoved}

OutcomeLists == UNION {[1..n -> OutcomePool] : n \in 0..MaxOutcomes}

InitAggregate ==
  /\ CaptureIdle
  /\ pc = "aggregate_new"
  /\ soup \in {BeautifulSoup(d) : d \in DocPool}
  /\ original_element_count \in 0..(MaxOutcomes * MaxRemoved)
  /\ selector_results \in OutcomeLists
  /\ summary_in = None
  /\ result_out = None
  /\ DownstreamIdle
  /\ CliIdle

AggregateCall ==
  /\ pc = "aggregate_new"
  /\ result_out' = aggregate_exclusion_summary(selector_results,
                                               original_element_count, soup)
  /\ pc' = "aggregate_returned"
  /\ UNCHANGED <<content, selectors, html_content, soup, original_element_count,
                 validation, idx, selector_results, total_removed, exclusion_result,
                 exclusion_timing_ms, log, exc, extraction_input, summary_in,
                 downstream, cli>>

NextAggregate == AggregateCall

SpecAggregate == InitAggregate /\ [][NextAggregate]_vars

-----------------------------------------------------------------------------
(* validate_selectors called directly, on lists of every length up to and   *)
(* past the cap.                                                            *)

ValidatePool ==
  SelectorPool \cup {SelHtmlUnclosed, SelBodyUnclosed, SelDivBody, SelNumber}

ValidateLists == UNION {[1..n -> ValidatePool] : n \in 0..MaxLen}

UniformLists ==
  {[i \in 1..n |-> s] : n \in 0..(MaxSelectors + MaxOver), s \in ValidatePool}

\* lists past the cap that alternate two selectors
MixedLists ==
  {[i \in 1..n |-> IF i % 2 = 1 THEN s ELSE t] :
     n \in (MaxSelectors + 1)..(MaxSelectors + MaxOver),
     s \in ValidatePool, t \in ValidatePool}

InitValidate ==
  /\ content = DocEmpty
  /\ selectors \in ValidateLists \cup UniformLists \cup MixedLists
  /\ pc = "validate_new"
  /\ html_content = DocEmpty
  /\ soup = None
  /\ original_element_count = -1
  /\ validation = None
  /\ idx = 0
  /\ selector_results = << >>
  /\ total_removed = 0
  /\ exclusion_result = None
  /\ exclusion_timing_ms = None
  /\ log = << >>
  /\ exc = None
  /\ extraction_input = None
  /\ summary_in = None
  /\ result_out = None
  /\ DownstreamIdle
  /\ CliIdle

ValidateCall ==
  /\ pc = "validate_new"
  /\ result_out' = validate_selectors(selectors, MaxSelectors)
  /\ pc' = "validate_returned"
  /\ UNCHANGED <<content, selectors, html_content, soup, original_element_count,
                 validation, idx, selector_results, total_removed, exclusion_result,
                 exclusion_timing_ms, log, exc, extraction_input, summary_in,
                 downstream, cli>>

NextValidate == ValidateCall

SpecValidate == InitValidate /\ [][NextValidate]_vars

-----------------------------------------------------------------------------
(* log_exclusion_warnings called on an ExclusionResult built directly.      *)

\* outcomes as apply_exclusions builds them
WarningOutcomePool ==
  {SelectorResult(SelFooter, TRUE, n, None) : n \in 0..MaxRemoved}
  \cup {SelectorResult(SelUnclosed, FALSE, 0,
           Text(<< "Invalid CSS selector syntax: ", "Malformed attribute selector" >>)),
        SelectorResult(SelHtml, FALSE, 0,
           Text(<< "Protected selector (html/body cannot be excluded)" >>))}

WarningOutcomeLists == UNION {[1..n -> WarningOutcomePool] : n \in 0..MaxOutcomes}

WarningResults ==
  {[soup |-> sp,
    summary |-> aggregate_exclusion_summary(rs, n, sp),
    selector_results |-> rs] :
     rs \in WarningOutcomeLists, n \in 0..(MaxOutcomes * MaxRemoved),
     sp \in {BeautifulSoup(d) : d \in DocPool}}

InitWarnings ==
  /\ content = DocEmpty
  /\ selectors = << >>
  /\ pc = "log_warnings"
  /\ html_content = DocEmpty
  /\ soup = None
  /\ original_element_count = -1
  /\ validation = None
  /\ idx = 0
  /\ selector_results = << >>
  /\ total_removed = 0
  /\ exclusion_result \in
       {r \in WarningResults : r.summary.elements_removed <= r.summary.original_element_count}
  /\ exclusion_timing_ms = None
  /\ log = << >>
  /\ exc = None
  /\ extraction_input = None
  /\ summary_in = None
  /\ result_out = None
  /\ DownstreamIdle
  /\ CliIdle

NextWarnings == LogWarnings

SpecWarnings == InitWarnings /\ [][NextWarnings]_vars

-----------------------------------------------------------------------------
(* detect_empty_primary_content and is_content_element_empty called on      *)
(* generated trees.                                                         *)

\* inner nested in d wrapper elements that hold only whitespace
RECURSIVE Wrap(_, _)
Wrap(d, inner) ==
  IF d = 0 THEN inner
  ELSE << Open("div", "", "", "ws") >> \o Wrap(d - 1, inner) \o << Close("div") >>

\* nothing, or one element of each kind has_meaningful_content asks about
LeafPool ==
  {<< >>}
  \cup {<< Open(t, "", "", ""), Close(t) >> : t \in {"img", "a", "span"} \cup ContentTags}
  \cup {<< Open("span", "", "", x), Close("span") >> : x \in {"ws", "text"}}

\* the three kinds of primary content element, and an element that is none
BlockKinds ==
  {[tag |-> "article", role |-> ""], [tag |-> "main", role |-> ""],
   [tag |-> "div", role |-> "main"], [tag |-> "section", role |-> ""]}

Block(kind, text, inner) ==
  << Open(kind.tag, "", kind.role, text) >> \o inner \o << Close(kind.tag) >>

\* one element with every combination of own text, nesting depth and leaf
SingleBlocks ==
  {Block(k, x, Wrap(d, leaf)) :
     k \in BlockKinds, x \in {"", "ws", "text"}, d \in 0..MaxDepth, leaf \in LeafPool}

\* the elements the generated documents are made of
LandmarkBlocks ==
  {[kind |-> k, text |-> x, inner |-> i] :
     k \in BlockKinds, x \in {"ws", "text"},
     i \in {<< >>, Wrap(MaxDepth, << >>),
            Wrap(MaxDepth, << Open("img", "", "", ""), Close("img") >>)}}

\* the blocks side by side
RECURSIVE Flat(_, _)
Flat(f, i) ==
  IF i > Len(f) THEN << >>
  ELSE Block(f[i].kind, f[i].text, f[i].inner) \o Flat(f, i + 1)

\* each block inside the one before it
RECURSIVE Nested(_, _)
Nested(f, i) ==
  IF i > Len(f) THEN << >>
  ELSE Block(f[i].kind, f[i].text, f[i].inner \o Nested(f, i + 1))

LandmarkDocs ==
  LET lists == UNION {[1..n -> LandmarkBlocks] : n \in 0..MaxLandmarks}
  IN  {Flat(f, 1) : f \in lists}
      \cup {<< Open("html", "", "", ""), Open("body", "", "", "ws") >> \o Nested(f, 1) :
              f \in lists}

\* the trees: as parsed, and for the single elements also with one element
\* removed by an exclusion
EmptySoups ==
  {BeautifulSoup(d) : d \in SingleBlocks \cup LandmarkDocs}
  \cup UNION {{decompose(BeautifulSoup(d), n) : n \in 1..Len(BeautifulSoup(d).nodes)} :
               d \in SingleBlocks}

InitEmpty ==
  /\ CaptureIdle
  /\ pc = "empty_new"
  /\ soup \in EmptySoups
  /\ original_element_count = -1
  /\ selector_results = << >>
  /\ summary_in = None
  /\ result_out = None
  /\ DownstreamIdle
  /\ CliIdle

DetectCall ==
  /\ pc = "empty_new"
  /\ result_out' = [warning |-> detect_empty_primary_content(soup)]
  /\ pc' = "detect_returned"
  /\ UNCHANGED <<content, selectors, html_content, soup, original_element_count,
                 validation, idx, selector_results, total_removed, exclusion_result,
                 exclusion_timing_ms, log, exc, extraction_input, summary_in,
                 downstream, cli>>

ElementCall ==
  /\ pc = "empty_new"
  /\ \E element \in find_all(soup) :
       result_out' = [element |-> element,
                      empty |-> is_content_element_empty(soup, element)]
  /\ pc' = "element_returned"
  /\ UNCHANGED <<content, selectors, html_content, soup, original_element_count,
                 validation, idx, selector_results, total_removed, exclusion_result,
                 exclusion_timing_ms, log, exc, extraction_input, summary_in,
                 downstream, cli>>

NextEmpty == DetectCall \/ ElementCall

SpecEmpty == InitEmpty /\ [][NextEmpty]_vars

-----------------------------------------------------------------------------
(* is_protected_selector called directly.                                   *)

ProtectedPrefixes ==
  { << >>, <<" ">>, <<"\t", " ">>, <<"d","i","v"," ">>, <<".">>, <<"#">> }
ProtectedWords ==
  { <<"h","t","m","l">>, <<"H","T","M","L">>, <<"H","t","m","l">>,
    <<"b","o","d","y">>, <<"B","O","D","Y">>, <<"b","O","d","Y">>,
    <<"d","i","v">>, <<"h","t","m">> }
ProtectedSuffixes ==
  { << >>, <<".","f","o","o">>, <<" ","*">>, <<"[","x","]">>, <<"-","x">>,
    <<"x">>, <<"_","a">>, <<"1">>, <<">","p">>, <<":","x">>, <<",","p">>,
    <<" ">>, <<"#","i">> }

ProtectedInputs ==
  {Str(a \o w \o z) : a \in ProtectedPrefixes, w \in ProtectedWords,
                       z \in ProtectedSuffixes}
  \cup {SelEmpty, NotAStr, SelNumber}

InitProtected ==
  /\ content = DocEmpty
  /\ selectors \in {<< s >> : s \in ProtectedInputs}
  /\ pc = "protected_new"
  /\ html_content = DocEmpty
  /\ soup = None
  /\ original_element_count = -1
  /\ validation = None
  /\ idx = 0
  /\ selector_results = << >>
  /\ total_removed = 0
  /\ exclusion_result = None
  /\ exclusion_timing_ms = None
  /\ log = << >>
  /\ exc = None
  /\ extraction_input = None
  /\ summary_in = None
  /\ result_out = None
  /\ DownstreamIdle
  /\ CliIdle

ProtectedCall ==
  /\ pc = "protected_new"
  /\ result_out' = [protected |-> is_protected_selector(selectors[1])]
  /\ pc' = "protected_returned"
  /\ UNCHANGED <<content, selectors, html_content, soup, original_element_count,
                 validation, idx, selector_results, total_removed, exclusion_result,
                 exclusion_timing_ms, log, exc, extraction_input, summary_in,
                 downstream, cli>>

NextProtected == ProtectedCall

SpecProtected == InitProtected /\ [][NextProtected]_vars

-----------------------------------------------------------------------------
(* cli.py: main(argv).                                                      *)

\* the namespaces parse_args builds: one attribute per add_argument call, the
\* positional one under the name url_or_path
Namespaces ==
  [url_or_path : {"https://example.com/a", "page.html"},
   vault : {None}, config : {None}, subfolder : {None}, overwrite : {FALSE},
   timeout : {30}, max_size : {2000000}, exclude_selectors : {None}, tags : {None},
   dry : BOOLEAN,
   format : {"text", "json"}]

\* the codes argparse exits with: --help and --version, and usage errors
SystemExitCodes == {0, 2}

\* report.py: what the output functions are given
LegacyErrorReport(code, url, format_type) ==
  [report |-> "legacy_error", code |-> code, url |-> url, format |-> format_type]
ErrorReport(error, url, format_type) ==
  [report |-> "error", code |-> error.code, url |-> url, format |-> format_type]
ResultReport(result, format_type) ==
  [report |-> IF result.kind = "DryRunResult" THEN "dry_run" ELSE "success",
   code |-> "", url |-> "", format |-> format_type]

\* the structured errors capture_html_to_obsidian raises
CaptureErrors ==
  {CaptureNoSelectorMatchError, CaptureTimeoutError, CaptureSizeLimitError,
   CaptureEncodingError, CaptureFetchError, CaptureConversionError,
   CaptureWriteError}

\* "return <code>"
Return(code) ==
  /\ exit_code' = code
  /\ pc' = "main_returned"

\* an exception leaves main()
Escape(e) ==
  /\ capture_error' = e
  /\ exit_code' = exit_code
  /\ pc' = "main_escaped"

InitMain ==
  /\ CaptureIdle
  /\ pc = "main_start"
  /\ soup = None
  /\ original_element_count = -1
  /\ selector_results = << >>
  /\ summary_in = None
  /\ result_out = None
  /\ DownstreamIdle
  /\ CliIdle

\* "from .report import output_legacy_error"
ImportReport ==
  /\ pc = "main_start"
  /\ \/ /\ pc' = "main_parse"
        /\ exit_code' = exit_code
     \/ Return(1)
  /\ UNCHANGED <<content, selectors, html_content, soup, original_element_count,
                 validation, idx, selector_results, total_removed, exclusion_result,
                 exclusion_timing_ms, log, exc, extraction_input, summary_in, result_out,
                 metadata_input, front_matter_input, dry_run, capture_result, capture_error, args, output>>

\* "args = parser.parse_args(argv)", with "except SystemExit"
ParseArgs ==
  /\ pc = "main_parse"
  /\ \/ \E ns \in Namespaces :
          /\ args' = ns
          /\ pc' = "main_validate"
          /\ exit_code' = exit_code
     \/ \E code \in SystemExitCodes :
          /\ args' = args
          /\ Return(code)
  /\ UNCHANGED <<content, selectors, html_content, soup, original_element_count,
                 validation, idx, selector_results, total_removed, exclusion_result,
                 exclusion_timing_ms, log, exc, extraction_input, summary_in, result_out,
                 metadata_input, front_matter_input, dry_run, capture_result, capture_error, output>>

\* "is_valid, error_msg = validate_args(args)"
ValidateArgs ==
  /\ pc = "main_validate"
  /\ \/ /\ pc' = "main_import"
        /\ output' = output
        /\ exit_code' = exit_code
     \/ /\ output' = Append(output, LegacyErrorReport("CONFIG_ERROR", args.url_or_path,
                                                      args.format))
        /\ Return(9)
  /\ UNCHANGED <<content, selectors, html_content, soup, original_element_count,
                 validation, idx, selector_results, total_removed, exclusion_result,
                 exclusion_timing_ms, log, exc, extraction_input, summary_in, result_out,
                 metadata_input, front_matter_input, dry_run, capture_result, capture_error, args>>

\* the imports of the core modules, with "except ImportError"
ImportCore ==
  /\ pc = "main_import"
  /\ \/ /\ pc' = "main_config"
        /\ output' = output
        /\ exit_code' = exit_code
     \/ /\ output' = Append(output, LegacyErrorReport("IMPORT_ERROR", args.url_or_path,
                                                      args.format))
        /\ Return(1)
  /\ UNCHANGED <<content, selectors, html_content, soup, original_element_count,
                 validation, idx, selector_results, total_removed, exclusion_result,
                 exclusion_timing_ms, log, exc, extraction_input, summary_in, result_out,
                 metadata_input, front_matter_input, dry_run, capture_result, capture_error, args>>

\* load_config / create_default_config and the overrides; config.py raises its
\* own ConfigError, which is not a CaptureError
LoadConfig ==
  /\ pc = "main_config"
  /\ \/ /\ pc' = "main_vault"
        /\ capture_error' = capture_error
     \/ /\ pc' = "main_except"
        /\ capture_error' = OtherError("ConfigError")
  /\ UNCHANGED <<content, selectors, html_content, soup, original_element_count,
                 validation, idx, selector_results, total_removed, exclusion_result,
                 exclusion_timing_ms, log, exc, extraction_input, summary_in, result_out,
                 metadata_input, front_matter_input, dry_run, capture_result, args, output, exit_code>>

\* the three tests of the vault path
CheckVault ==
  /\ pc = "main_vault"
  /\ \/ /\ pc' = "main_capture"
        /\ output' = output
        /\ exit_code' = exit_code
     \/ /\ output' = Append(output, ErrorReport(CaptureWriteError, args.url_or_path,
                                                args.format))
        /\ Return(CaptureWriteError.exit_code)
  /\ UNCHANGED <<content, selectors, html_content, soup, original_element_count,
                 validation, idx, selector_results, total_removed, exclusion_result,
                 exclusion_timing_ms, log, exc, extraction_input, summary_in, result_out,
                 metadata_input, front_matter_input, dry_run, capture_result, capture_error, args>>

\* "result = capture_html_to_obsidian(request, start_time)"
CallCapture ==
  /\ pc = "main_capture"
  /\ dry_run' = args.dry
  /\ \/ /\ capture_result' = IF args.dry THEN DryRunResult ELSE CaptureResult(0, 0, None)
        /\ capture_error' = capture_error
        /\ pc' = "main_output"
     \/ \E e \in CaptureErrors \cup {ExtractionError} :
          /\ capture_result' = capture_result
          /\ capture_error' = e
          /\ pc' = "main_except"
  /\ UNCHANGED <<content, selectors, html_content, soup, original_element_count,
                 validation, idx, selector_results, total_removed, exclusion_result,
                 exclusion_timing_ms, log, exc, extraction_input, summary_in, result_out,
                 metadata_input, front_matter_input, args, output, exit_code>>

\* output_dry_run / output_success and "return 0"
ReportResult ==
  /\ pc = "main_output"
  /\ output' = Append(output, ResultReport(capture_result, args.format))
  /\ Return(0)
  /\ UNCHANGED <<content, selectors, html_content, soup, original_element_count,
                 validation, idx, selector_results, total_removed, exclusion_result,
                 exclusion_timing_ms, log, exc, extraction_input, summary_in, result_out,
                 metadata_input, front_matter_input, dry_run, capture_result, capture_error, args>>

\* "except CaptureError as e:": output_error(e, args.url, elapsed_ms,
\* args.format), where reading an attribute the namespace lacks raises
\* AttributeError inside the handler
HandleCaptureError ==
  /\ pc = "main_except"
  /\ capture_error.type = "CaptureError"
  /\ IF "url" \in DOMAIN args
     THEN /\ output' = Append(output, ErrorReport(capture_error, args["url"], args.format))
          /\ capture_error' = capture_error
          /\ Return(capture_error.exit_code)
     ELSE /\ output' = output
          /\ Escape(OtherError("AttributeError"))
  /\ UNCHANGED <<content, selectors, html_content, soup, original_element_count,
                 validation, idx, selector_results, total_removed, exclusion_result,
                 exclusion_timing_ms, log, exc, extraction_input, summary_in, result_out,
                 metadata_input, front_matter_input, dry_run, capture_result, args>>

\* "except Exception as e:"
HandleException ==
  /\ pc = "main_except"
  /\ capture_error.type # "CaptureError"
  /\ output' = Append(output, ErrorReport(GenericError, args.url_or_path, args.format))
  /\ Return(GenericError.exit_code)
  /\ UNCHANGED <<content, selectors, html_content, soup, original_element_count,
                 validation, idx, selector_results, total_removed, exclusion_result,
                 exclusion_timing_ms, log, exc, extraction_input, summary_in, result_out,
                 metadata_input, front_matter_input, dry_run, capture_result, capture_error, args>>

NextMain ==
  \/ ImportReport
  \/ ParseArgs
  \/ ValidateArgs
  \/ ImportCore
  \/ LoadConfig
  \/ CheckVault
  \/ CallCapture
  \/ ReportResult
  \/ HandleCaptureError
  \/ HandleException

SpecMain == InitMain /\ [][NextMain]_vars

-----------------------------------------------------------------------------
(* Properties. *)

\* the tree apply_exclusions was handed
OriginalSoup == BeautifulSoup(content)

\* validate_selectors has been called in this run
ValidateRan == original_element_count >= 0 /\ pc # "validate"

\* apply_exclusions has returned its ExclusionResult
Returned == exclusion_result # None

\* C1: validate_selectors(selectors, 100) raises TooManySelectorError exactly
\* when there are more than 100 selectors: with at most 100 it returns a
\* ValidationResult, and with more the error's message carries the count and
\* the limit 100.
C1_CapRaisesExactlyAboveLimit ==
  (pc = "validate_returned") =>
    /\ result_out.raised <=> Len(selectors) > 100
    /\ ~result_out.raised =>
         /\ result_out.exc = None
         /\ result_out.result # None
         /\ result_out.result.total_count = Len(selectors)
         /\ Len(result_out.result.valid) + Len(result_out.result.invalid)
              = Len(selectors)
    /\ result_out.raised =>
         /\ result_out.result = None
         /\ result_out.exc.type = "TooManySelectorError"
         /\ result_out.exc.message[2] = Len(selectors)
         /\ result_out.exc.message[4] = 100

C1_Witness ==
  /\ pc = "validate_returned"
  /\ Len(selectors) = 101
  /\ result_out.raised
  /\ result_out.exc.message = << "Too many selectors: ", 101, " provided, limit is ", 100 >>

\* C2: with more than 100 selectors apply_exclusions raises
\* TooManySelectorError before any removal: the tree is the tree it was handed,
\* there is no SelectorResult and no ExclusionResult, also when selectors of the
\* list match elements of the tree.
C2_CapRaisesBeforeAnyRemoval ==
  (ValidateRan /\ Len(selectors) > MaxSelectors) =>
    /\ soup = OriginalSoup
    /\ selector_results = << >>
    /\ exclusion_result = None
    /\ pc = "timer_exit" =>
         (exc # None /\ exc.type = "TooManySelectorError"
          /\ exc.origin = "apply_exclusions")

C2_Witness ==
  /\ pc = "timer_exit"
  /\ exc # None
  /\ exc.origin = "apply_exclusions"
  /\ Len(selectors) > MaxSelectors
  /\ select(soup, selectors[1]).elements # << >>
  /\ soup = OriginalSoup

\* C3 (as claimed): whenever the exclusion step raised, the document handed to
\* extraction is the fetched document with no removal applied.
C3_FailedExclusionLeavesDocument ==
  (pc = "done" /\ exc # None) =>
    BeautifulSoup(extraction_input.html_content) = OriginalSoup

\* C4 (as claimed): every html and body element of the tree handed to
\* apply_exclusions is in the tree when apply_exclusions returns.
C4_ProtectedRootsSurvive ==
  pc = "serialize" =>
    \A n \in find_all(OriginalSoup) :
      OriginalSoup.nodes[n].tag \in {"html", "body"} => n \in find_all(soup)

\* C5: an exception while one validated selector is executed makes that
\* selector's outcome a failure carrying the exception text, and nothing
\* else: the loop goes on, and every validated selector gets its own outcome,
\* in order.
C5_SelectorFailureIsIsolated ==
  (validation # None) =>
    /\ pc = "apply_valid" => Len(selector_results) = idx - 1
    /\ pc # "apply_valid" => idx = Len(validation.valid) + 1
    /\ \A k \in 1..(idx - 1) :
         /\ selector_results[k].selector = validation.valid[k].selector
         /\ ~selector_results[k].success =>
              /\ selector_results[k].elements_removed = 0
              /\ selector_results[k].error_message # None
              /\ selector_results[k].error_message.text[1] = "Failed to apply selector: "
              /\ Len(selector_results[k].error_message.text) > 1

C5_Witness ==
  /\ pc = "aggregate"
  /\ Len(selector_results) >= 2
  /\ ~selector_results[1].success
  /\ selector_results[2].success
  /\ selector_results[2].elements_removed > 0

\* C6: the only exception that leaves apply_exclusions is
\* TooManySelectorError; otherwise the call returns, and every selector that
\* was rejected or failed has a failed outcome in the returned list.
C6_OnlyCapErrorLeaves ==
  /\ (exc # None /\ exc.origin = "apply_exclusions") =>
       (exc.type = "TooManySelectorError" /\ Len(selectors) > MaxSelectors)
  /\ (ValidateRan /\ Len(selectors) <= MaxSelectors /\ pc \notin {"apply_valid", "aggregate"})
       => Returned
  /\ Returned =>
       \A i \in 1..Len(selectors) :
         LET c == ClassifySelector(selectors[i])
         IN  ~c.valid =>
               \E k \in 1..Len(exclusion_result.selector_results) :
                 /\ exclusion_result.selector_results[k].selector = c.entry.selector
                 /\ ~exclusion_result.selector_results[k].success
                 /\ exclusion_result.selector_results[k].error_message = c.entry.reason

C6_Witness ==
  /\ Returned
  /\ \E k \in 1..Len(exclusion_result.selector_results) :
       /\ ~exclusion_result.selector_results[k].success
       /\ exclusion_result.selector_results[k].selector = SelFragile
  /\ \E k \in 1..Len(exclusion_result.selector_results) :
       exclusion_result.selector_results[k].selector = SelUnclosed

\* the elements of a tree that the compiled form of a selector matches
Targets(sp, sel) ==
  LET c == CssCompile(sel)
  IN  {n \in find_all(sp) :
         \E a \in 1..Len(c.alts) : MatchesChain(sp, n, c.alts[a], Len(c.alts[a]))}

\* C7: validated selectors run in input order, each on the tree the earlier
\* ones left: a selector all of whose targets lie below elements that earlier
\* successful selectors matched finds nothing, and its outcome is a success
\* with 0 elements removed.
C7_LaterSelectorSeesMutatedTree ==
  (validation # None) =>
    /\ validation.valid =
         LET kept == SelectSeq(selectors, LAMBDA x : ClassifySelector(x).valid)
         IN  [i \in 1..Len(kept) |-> ExclusionSelector(kept[i], None)]
    /\ LET original == OriginalSoup
           targets == [k \in 1..(idx - 1) |->
                         Targets(original, validation.valid[k].selector)]
           removed == [k \in 1..(idx - 1) |->
                         UNION {targets[i] : i \in {i \in 1..(k - 1) :
                                                      selector_results[i].success}}]
       IN  \A j \in 1..(idx - 1) :
             ( /\ CssCompile(validation.valid[j].selector).kind = "ok"
               /\ targets[j] # {}
               /\ \A m \in targets[j] : removed[j] \cap Ancestors(original, m) # {} )
             => ( /\ selector_results[j].selector = validation.valid[j].selector
                  /\ selector_results[j].success
                  /\ selector_results[j].elements_removed = 0 )

C7_Witness ==
  /\ pc = "aggregate"
  /\ content = DocPage
  /\ Len(selector_results) = 2
  /\ selector_results[1].selector = SelDiv
  /\ selector_results[1].elements_removed = 1
  /\ selector_results[2].selector = SelFooter
  /\ selector_results[2].success
  /\ selector_results[2].elements_removed = 0

\* C8: in every summary apply_exclusions produces, elements_removed is at most
\* original_element_count, so removal_ratio lies in [0, 1]; and when
\* original_element_count is 0 the ratio is 0.0 and high_removal_warning is
\* false.
C8_RemovalRatioWithinUnit ==
  Returned =>
    LET summary == exclusion_result.summary
        ratio == removal_ratio(summary)
    IN  /\ summary.elements_removed <= summary.original_element_count
        /\ FractionGE(ratio, Fraction(0, 1))
        /\ FractionGE(Fraction(1, 1), ratio)
        /\ summary.original_element_count = 0 =>
             (ratio = Fraction(0, 1) /\ ~high_removal_warning(summary))

C8_Witness ==
  /\ Returned
  /\ exclusion_result.summary.original_element_count > 0
  /\ exclusion_result.summary.elements_removed
       = exclusion_result.summary.original_element_count
  /\ Len(exclusion_result.selector_results) > 1

RECURSIVE SumByValue(_, _)
SumByValue(results, v) ==
  IF v = 0 THEN 0
  ELSE v * Cardinality({i \in 1..Len(results) : results[i].elements_removed = v})
       + SumByValue(results, v - 1)

\* C10: aggregate_exclusion_summary folds the outcome list: selectors_processed
\* is its length, successful_selectors the number of successes,
\* failed_selectors the rest, elements_removed the sum of the outcomes'
\* elements_removed, original_element_count the count passed in, and no
\* numeric field is negative.
C10_AggregateIsFold ==
  (pc = "aggregate_returned") =>
    /\ result_out.selectors_processed = Len(selector_results)
    /\ result_out.successful_selectors =
         Cardinality({i \in 1..Len(selector_results) : selector_results[i].success})
    /\ result_out.failed_selectors =
         result_out.selectors_processed - result_out.successful_selectors
    /\ result_out.successful_selectors + result_out.failed_selectors
         = result_out.selectors_processed
    /\ result_out.elements_removed = SumByValue(selector_results, MaxRemoved)
    /\ result_out.original_element_count = original_element_count
    /\ result_out.selectors_processed >= 0
    /\ result_out.successful_selectors >= 0
    /\ result_out.failed_selectors >= 0
    /\ result_out.elements_removed >= 0
    /\ result_out.original_element_count >= 0

C10_Witness ==
  /\ pc = "aggregate_returned"
  /\ result_out.successful_selectors > 0
  /\ result_out.failed_selectors > 0
  /\ result_out.elements_removed > 1
  /\ \E i \in 1..Len(selector_results) :
       selector_results[i].success /\ selector_results[i].elements_removed = 0

\* C11: apply_exclusions returns exactly one SelectorResult per input selector,
\* duplicates counted separately: the outcome list is as long as the input
\* list, every selector text occurs in it as often as in the input, every
\* rejected selector occurs as a failed outcome carrying its rejection reason
\* as often as it was given, and summary.selectors_processed is the length of
\* the input list.
C11_OneOutcomePerSelector ==
  Returned =>
    LET results == exclusion_result.selector_results
        classified == [i \in 1..Len(selectors) |-> ClassifySelector(selectors[i])]
    IN  /\ Len(results) = Len(selectors)
        /\ exclusion_result.summary.selectors_processed = Len(selectors)
        /\ \A i \in 1..Len(selectors) :
             /\ Cardinality({k \in 1..Len(results) :
                               results[k].selector = classified[i].entry.selector})
                  = Cardinality({j \in 1..Len(selectors) :
                               classified[j].entry.selector = classified[i].entry.selector})
             /\ ~classified[i].valid =>
                  Cardinality({k \in 1..Len(results) :
                                 /\ results[k].selector = classified[i].entry.selector
                                 /\ ~results[k].success
                                 /\ results[k].error_message = classified[i].entry.reason})
                    = Cardinality({j \in 1..Len(selectors) :
                                     classified[j].entry = classified[i].entry})

C11_Witness ==
  /\ Returned
  /\ Len(selectors) = 2
  /\ selectors[1] = SelHtml
  /\ selectors[2] = SelHtml
  /\ Len(exclusion_result.selector_results) = 2
  /\ \A k \in 1..2 : ~exclusion_result.selector_results[k].success
  /\ exclusion_result.summary.selectors_processed = 2

\* C12: every SelectorResult of the returned outcome list has success exactly
\* when error_message is None, has elements_removed = 0 when it is a failure,
\* and every failed outcome carries a non-empty error_message.
C12_OutcomeInvariant ==
  Returned =>
    \A k \in 1..Len(exclusion_result.selector_results) :
      LET r == exclusion_result.selector_results[k]
      IN  /\ r.success <=> (r.error_message = None)
          /\ ~r.success =>
               /\ r.elements_removed = 0
               /\ r.error_message # None
               /\ r.error_message.text # << >>
               /\ r.error_message.text[1] # ""
          /\ r.elements_removed >= 0

C12_Witness ==
  /\ Returned
  /\ \E k \in 1..Len(exclusion_result.selector_results) :
       /\ ~exclusion_result.selector_results[k].success
       /\ exclusion_result.selector_results[k].selector = SelHtml
  /\ \E k \in 1..Len(exclusion_result.selector_results) :
       /\ exclusion_result.selector_results[k].success
       /\ exclusion_result.selector_results[k].elements_removed > 0

\* the characters of a CSS identifier
IdentChars == WordChars \cup {"-"}

\* the leading token of a selector text: its longest prefix of identifier
\* characters
LeadingToken(s) ==
  LET stop == {i \in 1..Len(s) : s[i] \notin IdentChars}
  IN  IF stop = {} THEN s
      ELSE SubSeq(s, 1, (CHOOSE i \in stop : \A j \in stop : i <= j) - 1)

\* the selector is a str whose leading token, trimmed and lowercased, is the
\* tag html or body
LeadsWithRoot(sel) ==
  /\ sel.isstr
  /\ LeadingToken(StrStrip(StrLower(sel.chars))) \in {<<"h","t","m","l">>, <<"b","o","d","y">>}

\* C13: validate_selectors checks empty/non-string, then protected, then
\* syntax: a selector that leads with html or body and is malformed is
\* rejected with the reason that says protected, never with a syntax reason.
C13_ProtectedBeforeSyntax ==
  (pc = "validate_returned" /\ ~result_out.raised) =>
    \A i \in 1..Len(selectors) :
      (LeadsWithRoot(selectors[i]) /\ CssCompile(selectors[i]).kind = "syntax") =>
        /\ \E k \in 1..Len(result_out.result.invalid) :
             /\ result_out.result.invalid[k].selector = selectors[i]
             /\ result_out.result.invalid[k].reason
                  = Text(<< "Protected selector (html/body cannot be excluded)" >>)
        /\ \A k \in 1..Len(result_out.result.invalid) :
             result_out.result.invalid[k].selector = selectors[i] =>
               result_out.result.invalid[k].reason.text[1] # "Invalid CSS selector syntax: "
        /\ \A k \in 1..Len(result_out.result.valid) :
             result_out.result.valid[k].selector # selectors[i]

C13_Witness ==
  /\ pc = "validate_returned"
  /\ selectors = << SelBodyUnclosed, SelUnclosed >>
  /\ Len(result_out.result.invalid) = 2
  /\ result_out.result.invalid[1].reason.text[1]
       = "Protected selector (html/body cannot be excluded)"
  /\ result_out.result.invalid[2].reason.text[1] = "Invalid CSS selector syntax: "

\* C14 (as claimed): is_protected_selector is true exactly when the selector is
\* a non-empty str whose leading token, after trimming and lowercasing, is the
\* tag html or body; it is false for a selector that names html or body only
\* later, and for empty and non-string input.
C14_ProtectedIffLeadingRoot ==
  (pc = "protected_returned") =>
    (result_out.protected <=> LeadsWithRoot(selectors[1]))

\* C20: the cap is on the raw length of the list, ahead of any classification:
\* a list longer than the cap raises TooManySelectorError whatever it holds
\* (duplicates, rejected and protected selectors count), the error carries the
\* raw length, and no valid or invalid list is produced; a list at the cap is
\* classified even when every selector of it is rejected.
C20_CapBeforeClassification ==
  (pc = "validate_returned") =>
    /\ Len(selectors) > MaxSelectors =>
         /\ result_out.raised
         /\ result_out.exc.type = "TooManySelectorError"
         /\ result_out.exc.message[2] = Len(selectors)
         /\ result_out.result = None
    /\ (~result_out.raised) =>
         /\ Len(selectors) <= MaxSelectors
         /\ result_out.result.total_count = Len(selectors)

C20_Witness ==
  /\ pc = "validate_returned"
  /\ Len(selectors) = MaxSelectors + 1
  /\ selectors[1] = SelHtmlUnclosed
  /\ selectors[2] = SelEmpty
  /\ \A i \in 1..Len(selectors) : ~ClassifySelector(selectors[i]).valid
  /\ result_out.raised
  /\ result_out.result = None

\* the primary content elements of a tree: article, main and role="main"
Landmarks(sp) ==
  {n \in find_all(sp) : sp.nodes[n].tag \in {"article", "main"} \/ sp.nodes[n].role = "main"}

\* C15: detect_empty_primary_content looks at every article, main and
\* role="main" element of the whole tree: it is true when there is none, false
\* when at least one of them has meaningful content, and true only when every
\* one of them is empty.
C15_EmptyOnlyWhenAllEmpty ==
  (pc = "detect_returned") =>
    LET found == Landmarks(soup)
    IN  /\ found = {} => result_out.warning
        /\ (\E n \in found : ~is_content_element_empty(soup, n)) => ~result_out.warning
        /\ result_out.warning => \A n \in found : is_content_element_empty(soup, n)
        /\ (found # {} /\ \A n \in found : is_content_element_empty(soup, n))
             => result_out.warning

C15_Witness ==
  /\ pc = "detect_returned"
  /\ ~result_out.warning
  /\ \E n \in Landmarks(soup), m \in Landmarks(soup) :
       /\ soup.nodes[n].tag = "article"
       /\ soup.nodes[m].role = "main"
       /\ soup.nodes[n].parent = 0
       /\ soup.nodes[m].parent = 0
       /\ is_content_element_empty(soup, n)
       /\ ~is_content_element_empty(soup, m)

\* C16: is_content_element_empty is false exactly when the element contains an
\* img, an a, one of video, audio, iframe, form, table, canvas, svg, or text
\* that is more than whitespace; an element that holds only wrapper elements
\* and whitespace is empty at any depth of nesting.
C16_EmptyIffNoContent ==
  (pc = "element_returned") =>
    LET inside == {d \in find_all(soup) : result_out.element \in Ancestors(soup, d)}
        tags == {soup.nodes[d].tag : d \in inside}
        texts == {soup.nodes[d].text : d \in inside \cup {result_out.element}}
    IN  (~result_out.empty) <=>
          \/ "img" \in tags
          \/ "a" \in tags
          \/ "text" \in texts
          \/ tags \cap {"video", "audio", "iframe", "form", "table", "canvas", "svg"} # {}

C16_Witness ==
  /\ pc = "element_returned"
  /\ ~result_out.empty
  /\ soup.nodes[result_out.element].parent = 0
  /\ soup.nodes[result_out.element].text = "ws"
  /\ \E d \in find_all(soup) :
       /\ soup.nodes[d].tag = "canvas"
       /\ Cardinality(Ancestors(soup, d)) = MaxDepth + 1

\* the record has this extra field with this value
HasExtra(record, field, value) ==
  field \in DOMAIN record.extra /\ record.extra[field] = value

\* C17: log_exclusion_warnings writes, in this order and number: one warning
\* per failed outcome, in outcome order, with its selector and reason; one
\* warning iff high_removal_warning; one warning iff
\* empty_primary_content_warning; one info summary iff elements_removed > 0;
\* and nothing else.
C17_WarningOrder ==
  (pc = "extract" /\ exc = None /\ exclusion_result # None /\ exclusion_timing_ms = None) =>
    LET summary == exclusion_result.summary
        failed == SelectSeq(exclusion_result.selector_results, LAMBDA r : ~r.success)
        n == Len(failed)
        high == /\ summary.original_element_count > 0
                /\ 5 * summary.elements_removed >= 2 * summary.original_element_count
        h == IF high THEN 1 ELSE 0
        e == IF summary.empty_primary_content_warning THEN 1 ELSE 0
        i == IF summary.elements_removed > 0 THEN 1 ELSE 0
    IN  /\ Len(log) = n + h + e + i
        /\ \A k \in 1..n :
             /\ log[k].level = "warning"
             /\ log[k].message = << "Exclusion selector failed" >>
             /\ "selector" \in DOMAIN log[k].extra
             /\ log[k].extra.selector = failed[k].selector
             /\ log[k].extra.error = failed[k].error_message
        /\ h = 1 =>
             /\ log[n + 1].level = "warning"
             /\ HasExtra(log[n + 1], "warning_type", "high_removal")
             /\ log[n + 1].extra.elements_removed = summary.elements_removed
             /\ log[n + 1].extra.original_count = summary.original_element_count
        /\ e = 1 =>
             /\ log[n + h + 1].level = "warning"
             /\ HasExtra(log[n + h + 1], "warning_type", "empty_primary_content")
        /\ i = 1 =>
             /\ log[n + h + e + 1].level = "info"
             /\ log[n + h + e + 1].message = << "Exclusion summary" >>
             /\ HasExtra(log[n + h + e + 1], "selectors_processed", summary.selectors_processed)
             /\ HasExtra(log[n + h + e + 1], "successful_selectors", summary.successful_selectors)

C17_Witness ==
  /\ pc = "extract"
  /\ exclusion_timing_ms = None
  /\ Len(log) = 5
  /\ log[1].extra.selector = SelHtml
  /\ log[2].extra.selector = SelUnclosed
  /\ HasExtra(log[3], "warning_type", "high_removal")
  /\ HasExtra(log[4], "warning_type", "empty_primary_content")
  /\ log[5].level = "info"

\* C18 (as claimed): every record written by log_exclusion_warnings and
\* log_exclusion_errors carries the field operation = "exclude".
C18_EveryEntryTagged ==
  \A k \in 1..Len(log) :
    log[k].message[1] \notin {"Starting ", "Completed "} =>
      HasExtra(log[k], "operation", "exclude")

\* C19 (as claimed): when a logging call of the exclusion step raises after
\* apply_exclusions has returned, the capture still completes, and extraction
\* reads the same document, with the same exclusions_applied and
\* elements_excluded, as when logging succeeds.
C19_LoggingFailureHarmless ==
  (exclusion_result # None /\ exc # None /\ exc.type = "LoggingError") =>
    /\ pc # "crashed"
    /\ pc = "done" =>
         /\ extraction_input = [html_content |-> SoupStr(exclusion_result.soup)]
         /\ exclusions_applied = Len(selectors)
         /\ elements_excluded = total_removed

\* a step of the loop over validation.valid that appended one outcome
ValidSelectorStep ==
  /\ pc = "apply_valid"
  /\ pc' = "apply_valid"
  /\ idx' = idx + 1
  /\ Len(selector_results') = Len(selector_results) + 1

\* C23: the elements_removed of a successful selector is the number of nodes
\* its one query returned on the tree as it stood before any of them was
\* removed: a container and its descendant matched by the same query are both
\* counted, descendants that were not matched are not, and the running total
\* grows by the same number.
C23_CountIsQuerySize ==
  [][ (ValidSelectorStep /\ selector_results'[Len(selector_results')].success) =>
        LET matched == Targets(soup, validation.valid[idx].selector)
        IN  /\ selector_results'[Len(selector_results')].elements_removed
                 = Cardinality(matched)
            /\ total_removed' = total_removed + Cardinality(matched) ]_vars

C23_Witness ==
  /\ Returned
  /\ content = DocPage
  /\ selectors = << SelAdOrFooter >>
  /\ exclusion_result.selector_results[1].elements_removed = 2
  /\ \E n \in Targets(OriginalSoup, SelAdOrFooter) :
       Targets(OriginalSoup, SelAdOrFooter) \cap Ancestors(OriginalSoup, n) # {}

\* C24: a validated selector whose query matches no element of the tree is
\* recorded as a success with elements_removed 0 and no error message, and
\* the tree stays as it was.
C24_NoMatchIsSuccess ==
  [][ ( /\ ValidSelectorStep
        /\ ~select(soup, validation.valid[idx].selector).raised
        /\ Targets(soup, validation.valid[idx].selector) = {} ) =>
        /\ selector_results'[Len(selector_results')]
             = SelectorResult(validation.valid[idx].selector, TRUE, 0, None)
        /\ soup' = soup
        /\ total_removed' = total_removed ]_vars

C24_Witness ==
  /\ Returned
  /\ content = DocPage
  /\ selectors = << SelNav >>
  /\ exclusion_result.selector_results = << SelectorResult(SelNav, TRUE, 0, None) >>
  /\ exclusion_result.soup = OriginalSoup

\* C26: a step that records failed outcomes only (a validated selector whose
\* execution failed, or the rejected selectors) removes no node: the tree and
\* the running total after the step are those before it.
C26_FailedSelectorRemovesNothing ==
  [][ ( /\ pc = "apply_valid"
        /\ Len(selector_results') > Len(selector_results)
        /\ \A k \in (Len(selector_results) + 1)..Len(selector_results') :
             ~selector_results'[k].success ) =>
        /\ soup' = soup
        /\ total_removed' = total_removed
        /\ \A k \in (Len(selector_results) + 1)..Len(selector_results') :
             selector_results'[k].elements_removed = 0 ]_vars

C26_Witness ==
  /\ Returned
  /\ content = DocPage
  /\ selectors = << SelFragile, SelBodyAny >>
  /\ \A k \in 1..2 : ~exclusion_result.selector_results[k].success
  /\ exclusion_result.soup = OriginalSoup
  /\ Targets(OriginalSoup, SelFragile) # {}

\* C25: apply_exclusions changes the tree only by removing, for each
\* successful validated selector, the nodes its query matched on the tree of
\* that moment and everything below them; every other node keeps its place
\* (a parent that lost all its children included), no other step of the call
\* touches the tree, and the tree of the ExclusionResult is that tree.
C25_TreeIsOriginalMinusMatched ==
  [][ /\ ValidSelectorStep =>
           LET matched == IF selector_results'[Len(selector_results')].success
                          THEN Targets(soup, validation.valid[idx].selector)
                          ELSE {}
           IN  /\ soup'.nodes = soup.nodes
               /\ find_all(soup') =
                    find_all(soup) \ (matched \cup UNION {Descendants(soup, m) : m \in matched})
      /\ (pc # "parse" /\ ~ValidSelectorStep) => soup' = soup
      /\ exclusion_result' # exclusion_result => exclusion_result'.soup = soup ]_vars

C25_Witness ==
  /\ Returned
  /\ content = DocPage
  /\ selectors = << SelFooter >>
  /\ \E parent \in find_all(exclusion_result.soup) :
       /\ exclusion_result.soup.nodes[parent].tag = "div"
       /\ Descendants(exclusion_result.soup, parent) \cap find_all(OriginalSoup) # {}
       /\ Descendants(exclusion_result.soup, parent) \cap find_all(exclusion_result.soup) = {}
  /\ Cardinality(find_all(exclusion_result.soup)) = Cardinality(find_all(OriginalSoup)) - 1

\* C27: in every ExclusionResult, summary.elements_removed is at most
\* original_element_count minus the number of elements left in the tree: no
\* node is counted twice, and nodes that left the tree below a matched node
\* without being matched are not counted.
C27_CountedAtMostOnce ==
  Returned =>
    exclusion_result.summary.elements_removed
      <= exclusion_result.summary.original_element_count
           - Cardinality(find_all(exclusion_result.soup))

C27_Witness ==
  /\ Returned
  /\ Len(selectors) = 2
  /\ selectors[1] = selectors[2]
  /\ exclusion_result.summary.elements_removed > 0
  /\ exclusion_result.summary.elements_removed
       < exclusion_result.summary.original_element_count
           - Cardinality(find_all(exclusion_result.soup))

\* C28: summary.empty_primary_content_warning is detect_empty_primary_content
\* of the tree after all removals, whether or not anything was removed, and
\* when detect_empty_primary_content holds of the tree before the call the
\* warning is set after it.
C28_EmptyWarningOnlyTurnsOn ==
  Returned =>
    /\ exclusion_result.summary.empty_primary_content_warning
         = detect_empty_primary_content(exclusion_result.soup)
    /\ detect_empty_primary_content(OriginalSoup)
         => exclusion_result.summary.empty_primary_content_warning

C28_Witness ==
  /\ Returned
  /\ Landmarks(OriginalSoup) # {}
  /\ detect_empty_primary_content(OriginalSoup)
  /\ exclusion_result.summary.elements_removed = 0
  /\ Landmarks(exclusion_result.soup) # {}
  /\ exclusion_result.summary.empty_primary_content_warning

\* C29: selector_results holds the outcomes of the validated selectors in
\* their input order, then the outcomes of the rejected selectors in their
\* input order; a rejected selector given before a valid one comes after it.
C29_ValidatedThenRejected ==
  Returned =>
    LET classified == [i \in 1..Len(selectors) |-> ClassifySelector(selectors[i])]
        accepted == SelectSeq(classified, LAMBDA c : c.valid)
        refused == SelectSeq(classified, LAMBDA c : ~c.valid)
        results == exclusion_result.selector_results
    IN  /\ Len(results) = Len(accepted) + Len(refused)
        /\ \A k \in 1..Len(accepted) : results[k].selector = accepted[k].entry.selector
        /\ \A k \in 1..Len(refused) :
             /\ results[Len(accepted) + k].selector = refused[k].entry.selector
             /\ results[Len(accepted) + k].error_message = refused[k].entry.reason
             /\ ~results[Len(accepted) + k].success

C29_Witness ==
  /\ Returned
  /\ selectors = << SelUnclosed, SelFooter >>
  /\ exclusion_result.selector_results[1].selector = SelFooter
  /\ exclusion_result.selector_results[1].success
  /\ exclusion_result.selector_results[2].selector = SelUnclosed
  /\ ~exclusion_result.selector_results[2].success

\* C21: a CaptureResult carries the summary's selectors_processed as
\* exclusions_applied and its elements_removed as elements_excluded; when no
\* exclusion selector is configured or apply_exclusions raised, both are 0 and
\* exclusion_timing_ms is None.
C21_ResultReportsSummary ==
  (pc = "returned" /\ capture_result.kind = "CaptureResult") =>
    /\ exclusion_result # None =>
         /\ capture_result.exclusions_applied
              = exclusion_result.summary.selectors_processed
         /\ capture_result.elements_excluded
              = exclusion_result.summary.elements_removed
    /\ (selectors = << >> \/ (exc # None /\ exc.origin = "apply_exclusions")) =>
         /\ capture_result.exclusions_applied = 0
         /\ capture_result.elements_excluded = 0
         /\ capture_result.exclusion_timing_ms = None

C21_Witness ==
  /\ pc = "returned"
  /\ capture_result.kind = "CaptureResult"
  /\ selectors = << SelUnclosed, SelDiv >>
  /\ content = DocPage
  /\ capture_result.exclusions_applied = 2
  /\ capture_result.elements_excluded = 1
  /\ capture_result.exclusion_timing_ms # None

\* C30: metadata extraction and front-matter generation read the fetched
\* document, whether exclusions ran, failed or removed anything; only the
\* extraction call reads the document the exclusion step rewrote.
C30_MetadataReadsFetchedHtml ==
  /\ metadata_input # None => metadata_input = [html_content |-> content]
  /\ front_matter_input # None => front_matter_input = [html_content |-> content]
  /\ (extraction_input # None /\ pc # "extract") =>
       extraction_input = [html_content |-> html_content]

C30_Witness ==
  /\ pc = "returned"
  /\ exclusion_result # None
  /\ exclusion_result.summary.elements_removed > 0
  /\ extraction_input.html_content # content
  /\ metadata_input.html_content = content
  /\ front_matter_input.html_content = content

\* C22 (as claimed): main() always returns an integer exit code and no
\* exception leaves it: 0 after a capture that returned, the exit_code of the
\* CaptureError that capture_html_to_obsidian raised, after reporting it, and
\* 1 after any other exception.
C22_MainAlwaysReturnsExitCode ==
  /\ pc # "main_escaped"
  /\ pc = "main_returned" =>
       /\ exit_code \in 0..9
       /\ capture_result # None => exit_code = 0
       /\ capture_error # None =>
            IF capture_error.type = "CaptureError"
            THEN /\ exit_code = capture_error.exit_code
                 /\ output # << >>
                 /\ output[Len(output)].code = capture_error.code
            ELSE exit_code = 1

====
